---------------------------- MODULE Spec2Model ----------------------------
(***************************************************************************)
(* A model of garmin-workout-creator: the regex workout parser             *)
(* (parsers/regex_parser.py) and the validated data model it fills         *)
(* (models/step.py, models/target.py, models/workout.py).                  *)
(*                                                                         *)
(* Text is a sequence of one-character strings.  The regular expressions   *)
(* of the parser are kept as syntax trees and run by a backtracking        *)
(* matcher that returns its matches in the order Python's re would try     *)
(* them, so the first match and its groups are those re.match, re.search   *)
(* and re.sub produce.  Optional (None-able) fields are sets with at most  *)
(* one element: {} is None and {v} is the value v.                         *)
(***************************************************************************)
EXTENDS Integers, Sequences, FiniteSets, TLC

(***************************************************************************)
(* Optional values.                                                        *)
(***************************************************************************)
None == {}

Some(v) == {v}

IsNone(o) == o = {}

Get(o) == CHOOSE v \in o : TRUE

(***************************************************************************)
(* Characters and character classes of Python's re.                        *)
(***************************************************************************)
Digit == {"0", "1", "2", "3", "4", "5", "6", "7", "8", "9"}

LowerCase == {"a", "b", "c", "d", "e", "f", "g", "h", "i", "j", "k", "l", "m",
              "n", "o", "p", "q", "r", "s", "t", "u", "v", "w", "x", "y", "z"}

UpperCase == {"A", "B", "C", "D", "E", "F", "G", "H", "I", "J", "K", "L", "M",
              "N", "O", "P", "Q", "R", "S", "T", "U", "V", "W", "X", "Y", "Z"}

\* \w
WordChar == Digit \cup LowerCase \cup UpperCase \cup {"_"}

\* \s, and the characters str.strip() removes
Whitespace == {" ", "\t", "\n", "\r"}

LowerOf ==
  [c \in UpperCase |->
     CASE c = "A" -> "a" [] c = "B" -> "b" [] c = "C" -> "c" [] c = "D" -> "d"
       [] c = "E" -> "e" [] c = "F" -> "f" [] c = "G" -> "g" [] c = "H" -> "h"
       [] c = "I" -> "i" [] c = "J" -> "j" [] c = "K" -> "k" [] c = "L" -> "l"
       [] c = "M" -> "m" [] c = "N" -> "n" [] c = "O" -> "o" [] c = "P" -> "p"
       [] c = "Q" -> "q" [] c = "R" -> "r" [] c = "S" -> "s" [] c = "T" -> "t"
       [] c = "U" -> "u" [] c = "V" -> "v" [] c = "W" -> "w" [] c = "X" -> "x"
       [] c = "Y" -> "y" [] c = "Z" -> "z"]

\* str.lower()
StrLower(s) == [i \in 1..Len(s) |-> IF s[i] \in UpperCase THEN LowerOf[s[i]] ELSE s[i]]

\* str.strip()
StrStrip(s) ==
  LET keep == {i \in 1..Len(s) : s[i] \notin Whitespace}
  IN  IF keep = {} THEN <<>>
      ELSE SubSeq(s, CHOOSE i \in keep : \A j \in keep : i <= j,
                     CHOOSE i \in keep : \A j \in keep : i >= j)

(***************************************************************************)
(* Regular expressions as syntax trees.                                    *)
(***************************************************************************)
\* a character of the set cs
In(cs) == [t |-> "in", cs |-> cs]

\* a character not in cs; "." is NotIn({"\n"})
NotIn(cs) == [t |-> "notin", cs |-> cs]

Ch(c) == In({c})

Cat(rs) == [t |-> "cat", rs |-> rs]

Alt(rs) == [t |-> "alt", rs |-> rs]

\* r{lo,hi}; hi = -1 is unbounded; greedy or lazy
Rep(r, lo, hi, greedy) == [t |-> "rep", r |-> r, lo |-> lo, hi |-> hi, greedy |-> greedy]

Star(r) == Rep(r, 0, -1, TRUE)

Plus(r) == Rep(r, 1, -1, TRUE)

LazyPlus(r) == Rep(r, 1, -1, FALSE)

Opt(r) == Rep(r, 0, 1, TRUE)

\* capturing group number n
Grp(n, r) == [t |-> "grp", n |-> n, r |-> r]

\* $
Eos == [t |-> "eos"]

\* ^
Bos == [t |-> "bos"]

\* \b
Wb == [t |-> "wb"]

\* a literal word
Lit(w) == [t |-> "lit", w |-> w]

\* the largest group number of the parser's patterns (interval_pattern has 6)
NumGroups == 6

\* groups of a match before any group has taken part: <<0, 0>> is "None"
NoGroups == [n \in 1..NumGroups |-> <<0, 0>>]

IsWordAt(s, i) == i >= 1 /\ i <= Len(s) /\ s[i] \in WordChar

Min(S) == CHOOSE x \in S : \A y \in S : x <= y

Max(S) == CHOOSE x \in S : \A y \in S : x >= y

RECURSIVE ConcatAll(_, _, _)
\* ss[lo] \o ... \o ss[hi]
ConcatAll(ss, lo, hi) ==
  IF lo > hi THEN <<>>
  ELSE IF lo = hi THEN ss[lo]
  ELSE LET mid == (lo + hi) \div 2
       IN  ConcatAll(ss, lo, mid) \o ConcatAll(ss, mid + 1, hi)

IsCharClass(re) == re.t \in {"in", "notin"}

CharMatches(re, c) == IF re.t = "in" THEN c \in re.cs ELSE c \notin re.cs

RECURSIVE MatchAt(_, _, _, _)
RECURSIVE MatchCat(_, _, _, _, _)
RECURSIVE MatchRep(_, _, _, _, _)

\* The matches of pattern re in s starting at position i, with the groups g
\* captured so far, in the order a backtracking matcher finds them.  A match
\* is its end position (exclusive) and its groups.
MatchAt(re, s, i, g) ==
  CASE IsCharClass(re) ->
         IF i <= Len(s) /\ CharMatches(re, s[i]) THEN <<[pos |-> i + 1, g |-> g]>> ELSE <<>>
    [] re.t = "lit" ->
         IF i + Len(re.w) - 1 <= Len(s) /\ SubSeq(s, i, i + Len(re.w) - 1) = re.w
         THEN <<[pos |-> i + Len(re.w), g |-> g]>> ELSE <<>>
    [] re.t = "cat" -> MatchCat(re.rs, 1, s, i, g)
    [] re.t = "alt" ->
         ConcatAll([k \in 1..Len(re.rs) |-> MatchAt(re.rs[k], s, i, g)], 1, Len(re.rs))
    [] re.t = "rep" ->
         IF IsCharClass(re.r)
         THEN \* a run of single characters: the ends lo..hi repetitions reach
              LET run == Max({n \in 0..(Len(s) - i + 1) :
                                \A j \in i..(i + n - 1) : CharMatches(re.r, s[j])})
                  top == IF re.hi = -1 \/ run < re.hi THEN run ELSE re.hi
                  cnt == IF top >= re.lo THEN top - re.lo + 1 ELSE 0
              IN  [k \in 1..cnt |->
                     [pos |-> IF re.greedy THEN i + top - (k - 1) ELSE i + re.lo + (k - 1),
                      g |-> g]]
         ELSE MatchRep(re, 0, s, i, g)
    [] re.t = "grp" ->
         LET ms == MatchAt(re.r, s, i, g)
         IN  [k \in 1..Len(ms) |->
                [pos |-> ms[k].pos, g |-> [ms[k].g EXCEPT ![re.n] = <<i, ms[k].pos>>]]]
    [] re.t = "eos" ->
         IF i = Len(s) + 1 \/ (i = Len(s) /\ s[i] = "\n")
         THEN <<[pos |-> i, g |-> g]>> ELSE <<>>
    [] re.t = "bos" -> IF i = 1 THEN <<[pos |-> i, g |-> g]>> ELSE <<>>
    [] re.t = "wb" ->
         IF IsWordAt(s, i - 1) # IsWordAt(s, i) THEN <<[pos |-> i, g |-> g]>> ELSE <<>>

\* rs[k], then for each of its matches, in order, the rest of the sequence
MatchCat(rs, k, s, i, g) ==
  IF k > Len(rs) THEN <<[pos |-> i, g |-> g]>>
  ELSE LET ms == MatchAt(rs[k], s, i, g)
       IN  ConcatAll([j \in 1..Len(ms) |-> MatchCat(rs, k + 1, s, ms[j].pos, ms[j].g)],
                     1, Len(ms))

\* n repetitions of re.r have been matched; a repetition must consume text
MatchRep(re, n, s, i, g) ==
  LET ms   == IF re.hi = -1 \/ n < re.hi THEN MatchAt(re.r, s, i, g) ELSE <<>>
      more == ConcatAll([j \in 1..Len(ms) |->
                           IF ms[j].pos > i
                           THEN MatchRep(re, n + 1, s, ms[j].pos, ms[j].g) ELSE <<>>],
                        1, Len(ms))
      stop == IF n >= re.lo THEN <<[pos |-> i, g |-> g]>> ELSE <<>>
  IN  IF re.greedy THEN more \o stop ELSE stop \o more

\* re.match: a match object, or None
ReMatch(re, s) ==
  LET ms == MatchAt(re, s, 1, NoGroups)
  IN  IF ms = <<>> THEN None ELSE Some(Head(ms))

\* the first position from i on where re matches, 0 if none
FirstMatchFrom(re, s, i) ==
  LET starts == {j \in i..(Len(s) + 1) : MatchAt(re, s, j, NoGroups) # <<>>}
  IN  IF starts = {} THEN 0 ELSE Min(starts)

\* re.search: the leftmost match, or None
ReSearch(re, s) ==
  LET j == FirstMatchFrom(re, s, 1)
  IN  IF j = 0 THEN None ELSE Some(Head(MatchAt(re, s, j, NoGroups)))

\* match.group(n): None when the group took no part in the match
Group(s, m, n) ==
  IF m.g[n] = <<0, 0>> THEN None ELSE Some(SubSeq(s, m.g[n][1], m.g[n][2] - 1))

\* A replacement template: group number grp (0 for none) followed by lit.
Repl(grp, lit) == [grp |-> grp, lit |-> lit]

RECURSIVE SubFrom(_, _, _, _)
\* s from position i on with the leftmost non-overlapping matches replaced
SubFrom(re, repl, s, i) ==
  LET j == FirstMatchFrom(re, s, i)
  IN  IF j = 0 \/ j > Len(s) THEN SubSeq(s, i, Len(s))
      ELSE LET m == Head(MatchAt(re, s, j, NoGroups))
           IN  SubSeq(s, i, j - 1)
               \o (IF repl.grp = 0 THEN <<>> ELSE Get(Group(s, m, repl.grp)))
               \o repl.lit
               \o SubFrom(re, repl, s, m.pos)

\* re.sub for patterns that do not match the empty string
ReSub(re, repl, s) == SubFrom(re, repl, s, 1)

(***************************************************************************)
(* The patterns of RegexWorkoutParser.                                     *)
(***************************************************************************)
\* \s
Ws == In(Whitespace)

\* \d
Dg == In(Digit)

\* \d+(?:\.\d+)?
Number == Cat(<<Plus(Dg), Opt(Cat(<<Ch("."), Plus(Dg)>>))>>)

WARMUP_KEYWORDS ==
  Alt(<<Lit(<<"w", "a", "r", "m", "u", "p">>),
        Cat(<<Lit(<<"w", "a", "r", "m">>), Star(Ws), Lit(<<"u", "p">>)>>),
        Lit(<<"w", "u">>)>>)

COOLDOWN_KEYWORDS ==
  Alt(<<Lit(<<"c", "o", "o", "l", "d", "o", "w", "n">>),
        Cat(<<Lit(<<"c", "o", "o", "l">>), Star(Ws), Lit(<<"d", "o", "w", "n">>)>>),
        Lit(<<"c", "d">>)>>)

INTERVAL_KEYWORDS ==
  Alt(<<Lit(<<"i", "n", "t", "e", "r", "v", "a", "l">>),
        Lit(<<"i", "n", "t">>),
        Lit(<<"w", "o", "r", "k">>),
        Lit(<<"h", "a", "r", "d">>),
        Lit(<<"f", "a", "s", "t">>),
        Lit(<<"t", "e", "m", "p", "o">>),
        Lit(<<"r", "u", "n">>)>>)

RECOVERY_KEYWORDS ==
  Alt(<<Lit(<<"r", "e", "c", "o", "v", "e", "r", "y">>),
        Lit(<<"r", "e", "c", "o", "v", "e", "r">>),
        Lit(<<"r", "e", "s", "t">>),
        Lit(<<"e", "a", "s", "y">>),
        Lit(<<"j", "o", "g">>)>>)

DISTANCE_UNITS ==
  Alt(<<Lit(<<"k", "m">>),
        Lit(<<"k">>),
        Cat(<<Lit(<<"k", "i", "l", "o", "m", "e", "t", "e", "r">>), Opt(Ch("s"))>>),
        Lit(<<"m", "i">>),
        Cat(<<Lit(<<"m", "i", "l", "e">>), Opt(Ch("s"))>>),
        Lit(<<"m">>),
        Cat(<<Lit(<<"m", "e", "t", "e", "r">>), Opt(Ch("s"))>>)>>)

TIME_UNITS ==
  Alt(<<Lit(<<"m", "i", "n">>),
        Cat(<<Lit(<<"m", "i", "n", "u", "t", "e">>), Opt(Ch("s"))>>),
        Lit(<<"s", "e", "c">>),
        Cat(<<Lit(<<"s", "e", "c", "o", "n", "d">>), Opt(Ch("s"))>>),
        Lit(<<"s">>),
        Lit(<<"h", "r">>),
        Cat(<<Lit(<<"h", "o", "u", "r">>), Opt(Ch("s"))>>),
        Lit(<<"h">>)>>)

\* (\d{1,2}):(\d{2})
PACE_PATTERN == Cat(<<Grp(1, Rep(Dg, 1, 2, TRUE)), Ch(":"), Grp(2, Rep(Dg, 2, 2, TRUE))>>)

\* (\d{2,3})\s*(?:bpm|beats?)
HR_PATTERN ==
  Cat(<<Grp(1, Rep(Dg, 2, 3, TRUE)), Star(Ws),
        Alt(<<Lit(<<"b", "p", "m">>),
              Cat(<<Lit(<<"b", "e", "a", "t">>), Opt(Ch("s"))>>)>>)>>)

\* (warmup...|cooldown...|interval...|recovery...)
StepTypeKeywords ==
  Alt(<<WARMUP_KEYWORDS, COOLDOWN_KEYWORDS, INTERVAL_KEYWORDS, RECOVERY_KEYWORDS>>)

\* (?:\s+@\s+(.+?))?$ with the target clause in group n
TargetClause(n) ==
  Cat(<<Opt(Cat(<<Plus(Ws), Ch("@"), Plus(Ws), Grp(n, LazyPlus(NotIn({"\n"})))>>)), Eos>>)

\* "1km warmup @ 5:30"
simple_step_pattern ==
  Cat(<<Grp(1, Number), Star(Ws), Grp(2, Alt(<<DISTANCE_UNITS, TIME_UNITS>>)), Plus(Ws),
        Grp(3, StepTypeKeywords),
        TargetClause(4)>>)

\* "warmup 1km @ 5:30"
target_first_pattern ==
  Cat(<<Grp(1, StepTypeKeywords), Plus(Ws),
        Grp(2, Number), Star(Ws), Grp(3, Alt(<<DISTANCE_UNITS, TIME_UNITS>>)),
        TargetClause(4)>>)

\* "5min @ 165 bpm"
duration_only_pattern ==
  Cat(<<Bos, Grp(1, Number), Star(Ws), Grp(2, Alt(<<DISTANCE_UNITS, TIME_UNITS>>)),
        TargetClause(3)>>)

\* "3x 1km @ 4:45 + 2min rest"
interval_pattern ==
  Cat(<<Grp(1, Plus(Dg)), Star(Ws), Ch("x"), Plus(Ws),
        Grp(2, Number), Star(Ws), Grp(3, Alt(<<DISTANCE_UNITS, TIME_UNITS>>)),
        Opt(Cat(<<Plus(Ws), Ch("@"), Plus(Ws), Grp(4, LazyPlus(NotIn({"+"})))>>)),
        Opt(Cat(<<Star(Ws), Ch("+"), Star(Ws),
                  Grp(5, Number), Star(Ws), Grp(6, Alt(<<TIME_UNITS, DISTANCE_UNITS>>)),
                  Star(Ws),
                  Opt(Alt(<<Lit(<<"r", "e", "s", "t">>),
                            Lit(<<"r", "e", "c", "o", "v", "e", "r", "y">>),
                            Lit(<<"r", "e", "c">>),
                            Lit(<<"j", "o", "g">>),
                            Lit(<<"e", "a", "s", "y">>)>>))>>)),
        Eos>>)

\* "cooldown"
open_step_pattern == Cat(<<Bos, Grp(1, StepTypeKeywords), Eos>>)

(***************************************************************************)
(* _normalize_text and _split_workout.                                     *)
(***************************************************************************)
_normalize_text(text) ==
  LET t0 == StrStrip(StrLower(text))
      t1 == ReSub(Plus(In({";", ",", "\n"})), Repl(0, <<",">>), t0)
      t2 == ReSub(Cat(<<Grp(1, Number), Star(Ws), Ch("k"), Wb>>), Repl(1, <<"k", "m">>), t1)
      t3 == ReSub(Cat(<<Wb, Lit(<<"k", "m", "s">>), Wb>>), Repl(0, <<"k", "m">>), t2)
      t4 == ReSub(Cat(<<Wb, Lit(<<"k", "i", "l", "o", "m", "e", "t", "e", "r">>), Opt(Ch("s")), Wb>>),
                  Repl(0, <<"k", "m">>), t3)
      t5 == ReSub(Cat(<<Grp(1, Number), Star(Ws), Lit(<<"m", "i", "n">>), Opt(Ch("s")), Wb>>),
                  Repl(1, <<"m", "i", "n">>), t4)
      t6 == ReSub(Cat(<<Wb, Lit(<<"m", "i", "n", "u", "t", "e">>), Opt(Ch("s")), Wb>>),
                  Repl(0, <<"m", "i", "n">>), t5)
      t7 == ReSub(Cat(<<Grp(1, Number), Star(Ws), Lit(<<"s", "e", "c">>), Opt(Ch("s")), Wb>>),
                  Repl(1, <<"s", "e", "c">>), t6)
      t8 == ReSub(Cat(<<Wb, Lit(<<"s", "e", "c", "o", "n", "d">>), Opt(Ch("s")), Wb>>),
                  Repl(0, <<"s", "e", "c">>), t7)
      t9 == ReSub(Cat(<<Wb, Lit(<<"h", "o", "u", "r">>), Opt(Ch("s")), Wb>>),
                  Repl(0, <<"h", "r">>), t8)
      t10 == ReSub(Cat(<<Plus(Ws), Ch("@"), Plus(Ws)>>), Repl(0, <<" ", "@", " ">>), t9)
      t11 == ReSub(Cat(<<Star(Ws), Ch("+"), Star(Ws)>>), Repl(0, <<" ", "+", " ">>), t10)
  IN  t11

RECURSIVE SplitFrom(_, _, _)
\* str.split(sep): the pieces of s from position a on
SplitFrom(s, sep, a) ==
  LET at == {i \in a..Len(s) : s[i] = sep}
  IN  IF at = {} THEN <<SubSeq(s, a, Len(s))>>
      ELSE <<SubSeq(s, a, Min(at) - 1)>> \o SplitFrom(s, sep, Min(at) + 1)

StrSplit(s, sep) == SplitFrom(s, sep, 1)

\* _split_workout that keeps the empty pieces
_split_workout_KeepEmpty(text) ==
  LET pieces == StrSplit(text, ",")
  IN  [i \in 1..Len(pieces) |-> StrStrip(pieces[i])]

_split_workout(text) ==
  LET pieces == StrSplit(text, ",")
  IN  SelectSeq([i \in 1..Len(pieces) |-> StrStrip(pieces[i])], LAMBDA p : p # <<>>)

(***************************************************************************)
(* Results of operations that may raise: Ok(v) is a returned value,        *)
(* Raise(e) a raised ValueError (pydantic's ValidationError is one).       *)
(***************************************************************************)
Ok(v) == [ok |-> TRUE, val |-> v]

Raise(e) == [ok |-> FALSE, err |-> e]

(***************************************************************************)
(* Numbers.  int() of a digit string; float() of "\d+(\.\d+)?" held in     *)
(* thousandths (the texts of the model have at most three decimals).       *)
(***************************************************************************)
DigitVal ==
  [c \in Digit |->
     CASE c = "0" -> 0 [] c = "1" -> 1 [] c = "2" -> 2 [] c = "3" -> 3 [] c = "4" -> 4
       [] c = "5" -> 5 [] c = "6" -> 6 [] c = "7" -> 7 [] c = "8" -> 8 [] c = "9" -> 9]

RECURSIVE PyInt(_)
\* int(ds) for a string of digits
PyInt(ds) ==
  IF ds = <<>> THEN 0 ELSE 10 * PyInt(SubSeq(ds, 1, Len(ds) - 1)) + DigitVal[ds[Len(ds)]]

\* one unit of a float, in thousandths
Unit == 10 * 10 * 10

RECURSIVE Pow10(_)
Pow10(n) == IF n = 0 THEN 1 ELSE 10 * Pow10(n - 1)

\* float(ds) for ds matching \d+(?:\.\d+)?
PyFloat(ds) ==
  LET dots  == {i \in 1..Len(ds) : ds[i] = "."}
      dot   == IF dots = {} THEN Len(ds) + 1 ELSE Min(dots)
      whole == SubSeq(ds, 1, dot - 1)
      frac  == SubSeq(ds, dot + 1, Len(ds))
  IN  PyInt(whole) * Unit + (PyInt(frac) * Unit) \div Pow10(Len(frac))

(***************************************************************************)
(* models/target.py                                                        *)
(***************************************************************************)
\* PaceTarget(min_seconds_per_km=mn, max_seconds_per_km=mx)
PaceTarget(mn, mx) ==
  IF ~(mn >= 60 /\ mn <= 1200)
  THEN Raise("min_seconds_per_km out of range")
  ELSE IF ~IsNone(mx) /\ ~(Get(mx) >= 60 /\ Get(mx) <= 1200)
  THEN Raise("max_seconds_per_km out of range")
  ELSE IF ~IsNone(mx) /\ mn # 0 /\ Get(mx) < mn
  THEN Raise("max_seconds_per_km must be >= min_seconds_per_km")
  ELSE Ok([min_seconds_per_km |-> mn, max_seconds_per_km |-> mx])

\* HeartRateTarget without validate_hr_range
HeartRateTarget_NoRangeValidator(mn, mx) ==
  IF ~(mn >= 40 /\ mn <= 220)
  THEN Raise("min_bpm out of range")
  ELSE IF ~IsNone(mx) /\ ~(Get(mx) >= 40 /\ Get(mx) <= 220)
  THEN Raise("max_bpm out of range")
  ELSE Ok([min_bpm |-> mn, max_bpm |-> mx])

\* HeartRateTarget(min_bpm=mn, max_bpm=mx)
HeartRateTarget(mn, mx) ==
  IF ~(mn >= 40 /\ mn <= 220)
  THEN Raise("min_bpm out of range")
  ELSE IF ~IsNone(mx) /\ ~(Get(mx) >= 40 /\ Get(mx) <= 220)
  THEN Raise("max_bpm out of range")
  ELSE IF ~IsNone(mx) /\ mn # 0 /\ Get(mx) < mn
  THEN Raise("max_bpm must be >= min_bpm")
  ELSE Ok([min_bpm |-> mn, max_bpm |-> mx])

\* CadenceTarget(min_spm=mn, max_spm=mx)
CadenceTarget(mn, mx) ==
  IF ~(mn >= 60 /\ mn <= 220)
  THEN Raise("min_spm out of range")
  ELSE IF ~IsNone(mx) /\ ~(Get(mx) >= 60 /\ Get(mx) <= 220)
  THEN Raise("max_spm out of range")
  ELSE IF ~IsNone(mx) /\ mn # 0 /\ Get(mx) < mn
  THEN Raise("max_spm must be >= min_spm")
  ELSE Ok([min_spm |-> mn, max_spm |-> mx])

\* int(x) for a string: optional surrounding whitespace and sign around digits
IsPyIntString(x) ==
  LET t == StrStrip(x)
      d == IF t # <<>> /\ t[1] \in {"+", "-"} THEN Tail(t) ELSE t
  IN  d # <<>> /\ \A i \in 1..Len(d) : d[i] \in Digit

PyIntString(x) ==
  LET t == StrStrip(x)
  IN  IF t[1] = "-" THEN 0 - PyInt(Tail(t))
      ELSE IF t[1] = "+" THEN PyInt(Tail(t)) ELSE PyInt(t)

\* PaceTarget.from_pace_string
from_pace_string(pace0) ==
  LET pace  == StrStrip(pace0)
      parts == StrSplit(pace, ":")
  IN  IF \A i \in 1..Len(pace) : pace[i] # ":"
      THEN Raise("Pace must be in format 'M:SS' or 'MM:SS'")
      ELSE IF Len(parts) # 2
      THEN Raise("Pace must have exactly one ':'")
      ELSE IF ~(IsPyIntString(parts[1]) /\ IsPyIntString(parts[2]))
      THEN Raise("Pace minutes and seconds must be integers")
      ELSE IF PyIntString(parts[2]) >= 60
      THEN Raise("Pace seconds must be < 60")
      ELSE PaceTarget(PyIntString(parts[1]) * 60 + PyIntString(parts[2]), None)

(***************************************************************************)
(* models/step.py                                                          *)
(***************************************************************************)
StepType == {"warmup", "interval", "recovery", "cooldown", "repeat"}

DurationType == {"distance", "time", "open"}

TargetType == {"pace", "heart_rate", "cadence", "open"}

\* the keyword arguments of WorkoutStep(...) with the defaults of the fields
StepDefaults ==
  [duration_value |-> None, duration_unit |-> None,
   pace_target |-> None, hr_target |-> None, cadence_target |-> None,
   description |-> None, repeat_count |-> None, repeat_steps |-> None]

\* Field(None, gt=0) of duration_value and Field(None, ge=1, le=99) of repeat_count
FieldErrors(a) ==
  IF ~IsNone(a.duration_value) /\ ~(Get(a.duration_value) > 0)
  THEN Some("duration_value: input should be greater than 0")
  ELSE IF ~IsNone(a.repeat_count) /\ ~(Get(a.repeat_count) >= 1 /\ Get(a.repeat_count) <= 99)
  THEN Some("repeat_count: input should be between 1 and 99")
  ELSE None

\* validate_duration_value without its second test
validate_duration_value_Missing(a) ==
  IF a.duration_type # "open" /\ IsNone(a.duration_value)
  THEN Some("duration_value is required when duration_type is not OPEN")
  ELSE None

validate_duration_value(a) ==
  IF a.duration_type # "open" /\ IsNone(a.duration_value)
  THEN Some("duration_value is required when duration_type is not OPEN")
  ELSE IF a.duration_type = "open" /\ ~IsNone(a.duration_value)
  THEN Some("duration_value must be None when duration_type is OPEN")
  ELSE None

\* validate_target_consistency without the tests of targets_set > 1
validate_target_consistency_NoExtra(a) ==
  CASE a.target_type = "open" ->
         IF ~IsNone(a.pace_target) \/ ~IsNone(a.hr_target) \/ ~IsNone(a.cadence_target)
         THEN Some("No target should be set when target_type is OPEN") ELSE None
    [] a.target_type = "pace" ->
         IF IsNone(a.pace_target)
         THEN Some("pace_target is required when target_type is PACE") ELSE None
    [] a.target_type = "heart_rate" ->
         IF IsNone(a.hr_target)
         THEN Some("hr_target is required when target_type is HEART_RATE") ELSE None
    [] a.target_type = "cadence" ->
         IF IsNone(a.cadence_target)
         THEN Some("cadence_target is required when target_type is CADENCE") ELSE None

validate_target_consistency(a) ==
  LET targets_set == (IF IsNone(a.pace_target) THEN 0 ELSE 1)
                     + (IF IsNone(a.hr_target) THEN 0 ELSE 1)
                     + (IF IsNone(a.cadence_target) THEN 0 ELSE 1)
  IN  CASE a.target_type = "open" ->
             IF targets_set > 0
             THEN Some("No target should be set when target_type is OPEN") ELSE None
        [] a.target_type = "pace" ->
             IF IsNone(a.pace_target)
             THEN Some("pace_target is required when target_type is PACE")
             ELSE IF targets_set > 1
             THEN Some("Only pace_target should be set when target_type is PACE") ELSE None
        [] a.target_type = "heart_rate" ->
             IF IsNone(a.hr_target)
             THEN Some("hr_target is required when target_type is HEART_RATE")
             ELSE IF targets_set > 1
             THEN Some("Only hr_target should be set when target_type is HEART_RATE")
             ELSE None
        [] a.target_type = "cadence" ->
             IF IsNone(a.cadence_target)
             THEN Some("cadence_target is required when target_type is CADENCE")
             ELSE IF targets_set > 1
             THEN Some("Only cadence_target should be set when target_type is CADENCE")
             ELSE None

\* validate_repeat_fields that accepts an empty list of repeat_steps
validate_repeat_fields_AllowEmpty(a) ==
  IF a.step_type = "repeat"
  THEN IF IsNone(a.repeat_count)
       THEN Some("repeat_count is required for REPEAT steps")
       ELSE IF IsNone(a.repeat_steps)
       THEN Some("repeat_steps is required and must not be empty for REPEAT steps")
       ELSE None
  ELSE IF ~IsNone(a.repeat_count)
       THEN Some("repeat_count should only be set for REPEAT steps")
       ELSE IF ~IsNone(a.repeat_steps)
       THEN Some("repeat_steps should only be set for REPEAT steps")
       ELSE None

validate_repeat_fields(a) ==
  IF a.step_type = "repeat"
  THEN IF IsNone(a.repeat_count)
       THEN Some("repeat_count is required for REPEAT steps")
       ELSE IF IsNone(a.repeat_steps) \/ Len(Get(a.repeat_steps)) = 0
       THEN Some("repeat_steps is required and must not be empty for REPEAT steps")
       ELSE None
  ELSE IF ~IsNone(a.repeat_count)
       THEN Some("repeat_count should only be set for REPEAT steps")
       ELSE IF ~IsNone(a.repeat_steps)
       THEN Some("repeat_steps should only be set for REPEAT steps")
       ELSE None

\* WorkoutStep(**a): the fields are validated, then the three model
\* validators run in the order of their definition; the first error is raised
WorkoutStep(kw) ==
  LET a == kw @@ StepDefaults IN
  IF ~IsNone(FieldErrors(a)) THEN Raise(Get(FieldErrors(a)))
  ELSE IF ~IsNone(validate_duration_value(a)) THEN Raise(Get(validate_duration_value(a)))
  ELSE IF ~IsNone(validate_target_consistency(a))
  THEN Raise(Get(validate_target_consistency(a)))
  ELSE IF ~IsNone(validate_repeat_fields(a)) THEN Raise(Get(validate_repeat_fields(a)))
  ELSE Ok(a)

(***************************************************************************)
(* models/workout.py                                                       *)
(***************************************************************************)
UntitledWorkout == <<"U", "n", "t", "i", "t", "l", "e", "d", " ", "W", "o", "r", "k", "o", "u", "t">>

Running == <<"r", "u", "n", "n", "i", "n", "g">>

\* Workout(name=name, sport_type=sport_type, steps=steps)
Workout(name, sport_type, steps) ==
  IF ~(Len(name) >= 1 /\ Len(name) <= 100)
  THEN Raise("name: length must be between 1 and 100")
  ELSE IF Len(steps) = 0
  THEN Raise("Workout must have at least one step")
  ELSE Ok([name |-> name, sport_type |-> StrLower(sport_type), steps |-> steps,
           scheduled_date |-> None, notes |-> None])

(***************************************************************************)
(* parsers/regex_parser.py: building steps from a matched segment.         *)
(***************************************************************************)
\* _infer_step_type without the test of COOLDOWN_KEYWORDS
_infer_step_type_NoCooldown(text0) ==
  LET text == StrLower(text0)
  IN  IF ~IsNone(ReSearch(WARMUP_KEYWORDS, text)) THEN "warmup"
      ELSE IF ~IsNone(ReSearch(RECOVERY_KEYWORDS, text)) THEN "recovery"
      ELSE "interval"

_infer_step_type(text0) ==
  LET text == StrLower(text0)
  IN  IF ~IsNone(ReSearch(WARMUP_KEYWORDS, text)) THEN "warmup"
      ELSE IF ~IsNone(ReSearch(COOLDOWN_KEYWORDS, text)) THEN "cooldown"
      ELSE IF ~IsNone(ReSearch(RECOVERY_KEYWORDS, text)) THEN "recovery"
      ELSE IF ~IsNone(ReSearch(INTERVAL_KEYWORDS, text)) THEN "interval"
      ELSE "interval"

\* returns (DurationType, value)
_parse_duration(value, unit0) ==
  LET unit == StrLower(unit0)
  IN  IF unit \in {<<"k", "m">>, <<"k">>, <<"k", "i", "l", "o", "m", "e", "t", "e", "r", "s">>, <<"k", "i", "l", "o", "m", "e", "t", "e", "r">>}
      THEN Ok(<<"distance", value>>)
      ELSE IF unit \in {<<"m">>, <<"m", "e", "t", "e", "r", "s">>, <<"m", "e", "t", "e", "r">>}
      THEN Ok(<<"distance", value>>)
      ELSE IF unit \in {<<"m", "i">>, <<"m", "i", "l", "e">>, <<"m", "i", "l", "e", "s">>}
      THEN Ok(<<"distance", value>>)
      ELSE IF unit \in {<<"m", "i", "n">>, <<"m", "i", "n", "u", "t", "e">>, <<"m", "i", "n", "u", "t", "e", "s">>}
      THEN Ok(<<"time", value>>)
      ELSE IF unit \in {<<"s", "e", "c">>, <<"s", "e", "c", "o", "n", "d">>, <<"s", "e", "c", "o", "n", "d", "s">>, <<"s">>}
      THEN Ok(<<"time", value>>)
      ELSE IF unit \in {<<"h", "r">>, <<"h", "o", "u", "r">>, <<"h", "o", "u", "r", "s">>, <<"h">>}
      THEN Ok(<<"time", value>>)
      ELSE Raise("Unknown duration unit")

\* return TargetType.HEART_RATE, None, hr_target
HeartRateResult(hr_target) ==
  IF hr_target.ok THEN Ok(<<"heart_rate", None, Some(hr_target.val)>>) ELSE hr_target

\* return TargetType.PACE, pace_target, None
PaceResult(pace_target) ==
  IF pace_target.ok THEN Ok(<<"pace", Some(pace_target.val), None>>) ELSE pace_target

\* TargetOfMatches raising on a clause that is neither a heart rate nor a pace
TargetOfMatches_RaiseOnUnknown(target_str, hr_match, pace_match) ==
  IF ~IsNone(hr_match)
  THEN HeartRateResult(HeartRateTarget(PyInt(Get(Group(target_str, Get(hr_match), 1))), None))
  ELSE IF ~IsNone(pace_match)
  THEN PaceResult(from_pace_string(Get(Group(target_str, Get(pace_match), 1)) \o <<":">>
                                   \o Get(Group(target_str, Get(pace_match), 2))))
  ELSE Raise("Unrecognized target")

\* _parse_target once hr_match and pace_match are known
TargetOfMatches(target_str, hr_match, pace_match) ==
  IF ~IsNone(hr_match)
  THEN HeartRateResult(HeartRateTarget(PyInt(Get(Group(target_str, Get(hr_match), 1))), None))
  ELSE IF ~IsNone(pace_match)
  THEN PaceResult(from_pace_string(Get(Group(target_str, Get(pace_match), 1)) \o <<":">>
                                   \o Get(Group(target_str, Get(pace_match), 2))))
  ELSE Ok(<<"open", None, None>>)

\* _parse_target after target_str = target_str.strip()
TargetOfStripped(target_str) ==
  TargetOfMatches(target_str, ReSearch(HR_PATTERN, target_str),
                  ReSearch(PACE_PATTERN, target_str))

\* returns (TargetType, PaceTarget or None, HeartRateTarget or None)
_parse_target(target_str0) ==
  IF IsNone(target_str0) \/ Get(target_str0) = <<>>
  THEN Ok(<<"open", None, None>>)
  ELSE TargetOfStripped(StrStrip(Get(target_str0)))

\* LeafStepOf passing the kind of the target without its payload
LeafStepOf_NoPayload(step_type, unit, duration, target) ==
  IF ~duration.ok THEN duration
  ELSE IF ~target.ok THEN target
  ELSE WorkoutStep([step_type |-> step_type,
                    duration_type |-> duration.val[1],
                    duration_value |-> Some(duration.val[2]),
                    duration_unit |-> Some(unit),
                    target_type |-> target.val[1]])

\* WorkoutStep(...) of a leaf step once its duration and its target are known
LeafStepOf(step_type, unit, duration, target) ==
  IF ~duration.ok THEN duration
  ELSE IF ~target.ok THEN target
  ELSE WorkoutStep([step_type |-> step_type,
                    duration_type |-> duration.val[1],
                    duration_value |-> Some(duration.val[2]),
                    duration_unit |-> Some(unit),
                    target_type |-> target.val[1],
                    pace_target |-> target.val[2],
                    hr_target |-> target.val[3]])

\* the leaf step the simple, target-first and duration-only builders and the
\* interval builder (its work step) construct
LeafStep(step_type, value, unit, target_str) ==
  LeafStepOf(step_type, unit, _parse_duration(value, unit), _parse_target(target_str))

\* WorkoutStep(...) of the recovery step once its duration is known
RecoveryStepOf(recovery_unit, recovery) ==
  IF ~recovery.ok THEN recovery
  ELSE WorkoutStep([step_type |-> "recovery",
                    duration_type |-> recovery.val[1],
                    duration_value |-> Some(recovery.val[2]),
                    duration_unit |-> Some(recovery_unit),
                    target_type |-> "open"])

\* the recovery step of an interval segment
RecoveryStep(recovery_value, recovery_unit) ==
  RecoveryStepOf(recovery_unit, _parse_duration(PyFloat(recovery_value), recovery_unit))

\* the repeat step around the work step and the recovery step, if there is one
RepeatStep(repeat_count, repeat_steps) ==
  WorkoutStep([step_type |-> "repeat",
               duration_type |-> "open",
               target_type |-> "open",
               repeat_count |-> Some(repeat_count),
               repeat_steps |-> Some(repeat_steps)])

\* _parse_interval_step that never appends the recovery step
_parse_interval_step_NoRecovery(part, match) ==
  LET work_step == LeafStep("interval", PyFloat(Get(Group(part, match, 2))),
                            Get(Group(part, match, 3)), Group(part, match, 4))
  IN  IF ~work_step.ok THEN work_step
      ELSE RepeatStep(PyInt(Get(Group(part, match, 1))), <<work_step.val>>)

\* _parse_interval_step once the work step and the recovery step are built
RepeatOfBoth(repeat_count, work_step, recovery_step) ==
  IF ~recovery_step.ok THEN recovery_step
  ELSE RepeatStep(repeat_count, <<work_step, recovery_step.val>>)

\* _parse_interval_step once the work step is built
RepeatOfWork(part, match, work_step) ==
  IF ~work_step.ok THEN work_step
  ELSE IF ~IsNone(Group(part, match, 5)) /\ Get(Group(part, match, 5)) # <<>>
  THEN RepeatOfBoth(PyInt(Get(Group(part, match, 1))), work_step.val,
                    RecoveryStep(Get(Group(part, match, 5)), Get(Group(part, match, 6))))
  ELSE RepeatStep(PyInt(Get(Group(part, match, 1))), <<work_step.val>>)

_parse_interval_step(part, match) ==
  RepeatOfWork(part, match,
               LeafStep("interval", PyFloat(Get(Group(part, match, 2))),
                        Get(Group(part, match, 3)), Group(part, match, 4)))

_parse_simple_step(part, match) ==
  LeafStep(_infer_step_type(Get(Group(part, match, 3))),
           PyFloat(Get(Group(part, match, 1))), Get(Group(part, match, 2)),
           Group(part, match, 4))

_parse_target_first_step(part, match) ==
  LeafStep(_infer_step_type(Get(Group(part, match, 1))),
           PyFloat(Get(Group(part, match, 2))), Get(Group(part, match, 3)),
           Group(part, match, 4))

\* _parse_open_step that does not infer the step type from the keyword
_parse_open_step_Interval(part, match) ==
  WorkoutStep([step_type |-> "interval",
               duration_type |-> "open",
               target_type |-> "open"])

_parse_open_step(part, match) ==
  WorkoutStep([step_type |-> _infer_step_type(Get(Group(part, match, 1))),
               duration_type |-> "open",
               target_type |-> "open"])

_parse_duration_only_step(part, match) ==
  LeafStep("interval",
           PyFloat(Get(Group(part, match, 1))), Get(Group(part, match, 2)),
           Group(part, match, 3))

\* the patterns are tried in this order; the first that matches builds the step
StepOfMatches(part, m1, m2, m3, m4, m5) ==
  IF ~IsNone(m1) THEN _parse_interval_step(part, Get(m1))
  ELSE IF ~IsNone(m2) THEN _parse_simple_step(part, Get(m2))
  ELSE IF ~IsNone(m3) THEN _parse_target_first_step(part, Get(m3))
  ELSE IF ~IsNone(m4) THEN _parse_duration_only_step(part, Get(m4))
  ELSE IF ~IsNone(m5) THEN _parse_open_step(part, Get(m5))
  ELSE Raise("Cannot parse step")

_parse_step(part) ==
  StepOfMatches(part, ReMatch(interval_pattern, part), ReMatch(simple_step_pattern, part),
                ReMatch(target_first_pattern, part), ReMatch(duration_only_pattern, part),
                ReMatch(open_step_pattern, part))

(***************************************************************************)
(* The inputs of the model: workout descriptions put together from the     *)
(* shorthand's vocabulary, valid and invalid.                              *)
(***************************************************************************)
Keywords ==
  {<<"w", "a", "r", "m", "u", "p">>, <<"w", "a", "r", "m", " ", "u", "p">>,
   <<"w", "a", "r", "m", " ", " ", "u", "p">>, <<"w", "u">>,
   <<"c", "o", "o", "l", "d", "o", "w", "n">>,
   <<"c", "o", "o", "l", " ", "d", "o", "w", "n">>, <<"c", "d">>,
   <<"i", "n", "t", "e", "r", "v", "a", "l">>, <<"i", "n", "t">>, <<"w", "o", "r", "k">>,
   <<"h", "a", "r", "d">>, <<"f", "a", "s", "t">>, <<"t", "e", "m", "p", "o">>,
   <<"r", "u", "n">>, <<"r", "e", "c", "o", "v", "e", "r", "y">>,
   <<"r", "e", "c", "o", "v", "e", "r">>, <<"r", "e", "s", "t">>, <<"e", "a", "s", "y">>,
   <<"j", "o", "g">>}

UnitWords ==
  {<<"k", "m">>, <<"k">>, <<"k", "m", "s">>,
   <<"k", "i", "l", "o", "m", "e", "t", "e", "r", "s">>,
   <<"k", "i", "l", "o", "m", "e", "t", "e", "r">>, <<"m", "i">>, <<"m", "i", "l", "e">>,
   <<"m", "i", "l", "e", "s">>, <<"m">>, <<"m", "e", "t", "e", "r", "s">>,
   <<"m", "e", "t", "e", "r">>, <<"m", "i", "n">>, <<"m", "i", "n", "s">>,
   <<"m", "i", "n", "u", "t", "e">>, <<"m", "i", "n", "u", "t", "e", "s">>,
   <<"s", "e", "c">>, <<"s", "e", "c", "s">>, <<"s", "e", "c", "o", "n", "d">>,
   <<"s", "e", "c", "o", "n", "d", "s">>, <<"s">>, <<"h", "r">>, <<"h", "o", "u", "r">>,
   <<"h", "o", "u", "r", "s">>, <<"h">>}

TargetClauses ==
  {<<>>, <<" ", "@", " ", "5", ":", "3", "0">>,
   <<" ", "@", " ", "1", "6", "5", " ", "b", "p", "m">>,
   <<" ", "@", " ", "1", "2", ":", "0", "5">>, <<" ", "@", " ", "5", ":", "9", "9">>,
   <<" ", "@", " ", "0", ":", "3", "0">>, <<" ", "@", " ", "9", "9", "9", "b", "p", "m">>,
   <<" ", "@", " ", "5", "k", "3", "0">>,
   <<" ", "@", " ", "1", "5", "0", " ", "b", "e", "a", "t", "s", " ", "4", ":", "0", "0">>,
   <<" ", " ", "@", " ", " ", "4", ":", "4", "5", " ", "e", "a", "s", "y">>}

Magnitudes ==
  {<<"1">>, <<"0">>, <<"1", ".", "5">>, <<"1", "0">>}

SimpleSegments ==
  {<<"1", "k", "m", " ">> \o k \o t : k \in Keywords, t \in {<<>>, <<" ", "@", " ", "5", ":", "3", "0">>}}
  \cup {n \o sp \o u \o <<" ", "w", "a", "r", "m", "u", "p">> : n \in Magnitudes, sp \in {<<>>, <<" ">>}, u \in UnitWords}
  \cup {<<"2", "m", "i", "n", " ", "r", "e", "s", "t">> \o t : t \in TargetClauses}

TargetFirstSegments ==
  {k \o <<" ">> \o n \o u \o t :
     k \in Keywords, n \in {<<"2">>}, u \in {<<"k", "m">>, <<"m", "i", "n">>},
     t \in {<<>>, <<" ", "@", " ", "1", "5", "0", "b", "p", "m">>}}

DurationOnlySegments ==
  {n \o u \o t : n \in Magnitudes, u \in {<<"k", "m">>, <<"s">>, <<"h", "r">>}, t \in TargetClauses}

IntervalSegments ==
  {n \o <<"x", " ">> \o w \o t \o r :
     n \in {<<"1">>, <<"3">>, <<"0">>, <<"9", "9">>, <<"1", "0", "0">>},
     w \in {<<"1", "k", "m">>, <<"0", ".", "5", " ", "m", "i">>, <<"0", "m", "i", "n">>},
     t \in {<<>>, <<" ", "@", " ", "4", ":", "4", "5">>,
      <<" ", "@", " ", "1", "5", "0", "b", "p", "m">>,
      <<" ", "@", " ", "5", ":", "9", "9">>, <<" ", "@", " ", "f", "a", "s", "t">>},
     r \in {<<>>, <<" ", "+", " ", "2", "m", "i", "n", " ", "r", "e", "s", "t">>,
      <<"+", "4", "0", "0", "m">>,
      <<" ", "+", " ", "9", "0", " ", "s", "e", "c", "s", " ", "j", "o", "g">>,
      <<" ", "+", " ", "0", "m", "i", "n">>, <<"+", "2", "h", "r", "e", "s", "t">>}}
  \cup
  {n \o <<" ", "X", " ", " ">> \o <<"1", "k", "m">> \o t \o r :
     n \in {<<"1">>, <<"3">>, <<"0">>, <<"9", "9">>, <<"1", "0", "0">>},
     t \in {<<>>, <<" ", "@", " ", "4", ":", "4", "5">>},
     r \in {<<>>, <<" ", "+", " ", "2", "m", "i", "n", " ", "r", "e", "s", "t">>}}

OtherSegments ==
  Keywords
  \cup
  {<<"W", "U">>, <<"C", "o", "o", "l", " ", "D", "o", "w", "n">>,
   <<"g", "o", "b", "b", "l", "e", "d", "y", "g", "o", "o", "k">>,
   <<"g", "o", "b", "b", "l", "e", "d", "y", "g", "o", "o", "k", " ", "n", "o", "n", "s", "e", "n", "s", "e">>,
   <<"w", "a", "r", "m">>, <<"w", "a", "r", "m", "u", "p", "s">>, <<"1">>, <<"k", "m">>,
   <<"3", "x">>, <<"x", " ", "1", "k", "m">>, <<"@", " ", "5", ":", "3", "0">>,
   <<"1", "k", "m", " ", "w", "a", "r", "m", "u", "p", "s">>,
   <<"1", "k", "m", "w", "a", "r", "m", "u", "p">>, <<"3", "x", "1", "k", "m">>,
   <<"3", "x", " ", "1", "k", "m", " ", "+", " ", "r", "e", "s", "t">>,
   <<"1", "k", "m", " ", "@">>, <<"1", "k", "m", " ", "5", ":", "3", "0">>,
   <<"w", "a", "r", "m", "u", "p", "1", "k", "m">>,
   <<"1", "k", "m", " ", "w", "a", "r", "m", "u", "p", " ", "c", "o", "o", "l", "d", "o", "w", "n">>,
   <<"3", "x", " ", "1", "k", "m", " ", "@", " ", "4", ":", "4", "5", " ", "+", " ", "1", "m", "i", "n", " ", "+", " ", "2", "m", "i", "n">>}

\* the segments the texts of several segments are put together from
MixedSegments ==
  {<<"1", "k", "m", " ", "w", "a", "r", "m", "u", "p", " ", "@", " ", "5", ":", "3", "0">>,
   <<"3", "x", " ", "1", "k", "m", " ", "@", " ", "4", ":", "4", "5", " ", "+", " ", "2", "m", "i", "n", " ", "r", "e", "s", "t">>,
   <<"c", "o", "o", "l", "d", "o", "w", "n">>, <<"f", "o", "o">>, <<"0", "k", "m">>, <<>>}

Separators ==
  {<<",", " ">>, <<";">>, <<"\n">>, <<",", " ", ";">>}

\* the largest number of segments in a text put together from MixedSegments
MaxSegments == 2

RECURSIVE Join(_, _)
Join(segs, sep) ==
  IF Len(segs) = 0 THEN <<>>
  ELSE IF Len(segs) = 1 THEN segs[1]
  ELSE segs[1] \o sep \o Join(Tail(segs), sep)

SegmentLists == UNION {[1..n -> MixedSegments] : n \in 2..MaxSegments}

BlankTexts ==
  {<<>>, <<" ">>, <<"\n">>, <<"\t">>, <<"\r", "\n">>, <<" ", " ", " ">>,
   <<" ", "\n", "\t", " ">>}

SeparatorTexts ==
  {<<",">>, <<";">>, <<",", ";">>, <<";", "\n", ",">>, <<" ", ",", " ">>, <<",", " ", ";">>,
   <<"\n", ",", "\n">>, <<" ", ";", " ", ";", " ">>, <<",", "\n">>}

\* whitespace around a text: put around the texts separated by semicolons
Padding(sep) ==
  IF sep = <<";">> THEN <<" ", "\n">> ELSE <<>>

Texts ==
  BlankTexts \cup SeparatorTexts
  \cup SimpleSegments \cup TargetFirstSegments \cup DurationOnlySegments
  \cup IntervalSegments \cup OtherSegments
  \cup {Padding(sep) \o Join(segs, sep) \o Padding(sep) :
          segs \in SegmentLists, sep \in Separators}

(***************************************************************************)
(* The state: one call of RegexWorkoutParser.parse, or one programmatic    *)
(* construction of a WorkoutStep.                                          *)
(***************************************************************************)
VARIABLES
  pc,          \* "call", "loop", "returned", "raised": where parse is;
               \* "idle", "built": a program that constructs steps itself
  text,        \* the argument of parse
  normalized,  \* parse's local: the normalized text
  parts,       \* parse's local: the segments
  steps,       \* parse's local: the steps built so far
  result,      \* what parse returned or raised
  call,        \* the keyword arguments of the WorkoutStep(...) call
  obj,         \* what WorkoutStep(...) returned or raised
  workout,     \* the Workout that a program, the TUI or the web handler holds
  ret,         \* what the last accessor or handler call returned
  screens,     \* the TUI's stack of screens, the top one last
  threads,     \* the locals of each parse call that runs on the shared parser
  parser       \* the attributes of the RegexWorkoutParser

vars == <<pc, text, normalized, parts, steps, result, call, obj,
          workout, ret, screens, threads, parser>>

\* no call has ended yet
Pending == [ok |-> FALSE, err |-> "pending"]

EmptyInputError == [msg |-> "Workout description cannot be empty"]

NoStepsFoundError == [msg |-> "No workout steps found in description"]

\* ParseStepError with a message that leaves the segment out
ParseStepError_NoPart(part, e) == [msg |-> "Error parsing step", part |-> <<>>, cause |-> e]

\* f"Error parsing step '{part}': {e}"
ParseStepError(part, e) == [msg |-> "Error parsing step", part |-> part, cause |-> e]

\* IsEmptyInput without the test of text.strip()
IsEmptyInput_OnlyEmpty(t) == t = <<>>

\* not text or not text.strip()
IsEmptyInput(t) == t = <<>> \/ StrStrip(t) = <<>>

\* parse, to the start of the loop
ParseBegin ==
  /\ pc = "call"
  /\ IF IsEmptyInput(text)
     THEN /\ pc' = "raised"
          /\ result' = Raise(EmptyInputError)
          /\ UNCHANGED <<normalized, parts>>
     ELSE /\ normalized' = _normalize_text(text)
          /\ parts' = _split_workout(normalized')
          /\ IF parts' = <<>>
             THEN pc' = "raised" /\ result' = Raise(NoStepsFoundError)
             ELSE pc' = "loop" /\ UNCHANGED result
  /\ UNCHANGED <<text, steps, call, obj>>
  /\ UNCHANGED <<workout, ret, screens, threads, parser>>

\* ParseLoop putting each new step in front of the list (steps.insert(0, step))
ParseLoop_Prepend ==
  /\ pc = "loop"
  /\ Len(steps) < Len(parts)
  /\ LET part == parts[Len(steps) + 1]
         step == _parse_step(part)
     IN  IF step.ok
         THEN steps' = <<step.val>> \o steps /\ UNCHANGED <<pc, result>>
         ELSE /\ pc' = "raised"
              /\ result' = Raise(ParseStepError(part, step.err))
              /\ UNCHANGED steps
  /\ UNCHANGED <<text, normalized, parts, call, obj>>
  /\ UNCHANGED <<workout, ret, screens, threads, parser>>

\* parse, one iteration of the loop over the parts
ParseLoop ==
  /\ pc = "loop"
  /\ Len(steps) < Len(parts)
  /\ LET part == parts[Len(steps) + 1]
         step == _parse_step(part)
     IN  IF step.ok
         THEN steps' = Append(steps, step.val) /\ UNCHANGED <<pc, result>>
         ELSE /\ pc' = "raised"
              /\ result' = Raise(ParseStepError(part, step.err))
              /\ UNCHANGED steps
  /\ UNCHANGED <<text, normalized, parts, call, obj>>
  /\ UNCHANGED <<workout, ret, screens, threads, parser>>

\* parse, after the loop: the workout is created and returned
ParseReturn ==
  /\ pc = "loop"
  /\ Len(steps) = Len(parts)
  /\ result' = Workout(UntitledWorkout, Running, steps)
  /\ pc' = IF result'.ok THEN "returned" ELSE "raised"
  /\ UNCHANGED <<text, normalized, parts, steps, call, obj>>
  /\ UNCHANGED <<workout, ret, screens, threads, parser>>

(***************************************************************************)
(* Programmatic construction, as examples/simple_workout.py does it: the   *)
(* keyword arguments a caller may pass to WorkoutStep(...), valid or not.  *)
(***************************************************************************)
Pace530 == PaceTarget(330, None).val

HeartRate150 == HeartRateTarget(150, None).val

Cadence180 == CadenceTarget(180, None).val

LeafA ==
  WorkoutStep([step_type |-> "interval", duration_type |-> "distance",
               duration_value |-> Some(Unit), duration_unit |-> Some(<<"k", "m">>),
               target_type |-> "pace", pace_target |-> Some(Pace530)]).val

LeafB ==
  WorkoutStep([step_type |-> "recovery", duration_type |-> "time",
               duration_value |-> Some(2 * Unit), duration_unit |-> Some(<<"m", "i", "n">>),
               target_type |-> "open"]).val

RepeatA ==
  WorkoutStep([step_type |-> "repeat", duration_type |-> "open", target_type |-> "open",
               repeat_count |-> Some(2), repeat_steps |-> Some(<<LeafA, LeafB>>)]).val

StepKwargs ==
  {[step_type |-> st, duration_type |-> dt, duration_value |-> dv,
    duration_unit |-> IF IsNone(dv) THEN None ELSE Some(<<"k", "m">>),
    target_type |-> tt, pace_target |-> pt, hr_target |-> ht, cadence_target |-> ct,
    repeat_count |-> rc, repeat_steps |-> rs] :
     st \in StepType, dt \in DurationType,
     dv \in {None, Some(0), Some(5 * Unit)},
     tt \in TargetType,
     pt \in {None, Some(Pace530)}, ht \in {None, Some(HeartRate150)},
     ct \in {None, Some(Cadence180)},
     rc \in {None, Some(0), Some(1), Some(99), Some(100)},
     rs \in {None, Some(<<>>), Some(<<LeafA, LeafB>>), Some(<<RepeatA>>)}}

\* step = WorkoutStep(**kw)
ConstructStep ==
  /\ pc = "idle"
  /\ \E kw \in StepKwargs :
       /\ call' = kw
       /\ obj' = WorkoutStep(kw)
  /\ pc' = "built"
  /\ UNCHANGED <<text, normalized, parts, steps, result>>
  /\ UNCHANGED <<workout, ret, screens, threads, parser>>

\* RegexWorkoutParser(): __init__ calls _compile_patterns, which sets the five
\* attributes
RegexWorkoutParser ==
  [simple_step_pattern |-> simple_step_pattern,
   target_first_pattern |-> target_first_pattern,
   duration_only_pattern |-> duration_only_pattern,
   interval_pattern |-> interval_pattern,
   open_step_pattern |-> open_step_pattern]

\* no Workout is held, no screen is shown and no call runs on a shared parser
Elsewhere ==
  /\ workout = None
  /\ ret = Pending
  /\ screens = <<>>
  /\ threads = <<>>
  /\ parser = RegexWorkoutParser

Init ==
  /\ \/ pc = "call" /\ text \in Texts
     \/ pc = "idle" /\ text = <<>>
  /\ normalized = <<>>
  /\ parts = <<>>
  /\ steps = <<>>
  /\ result = Pending
  /\ call = [step_type |-> "none"]
  /\ obj = Pending
  /\ Elsewhere

Next == ParseBegin \/ ParseLoop \/ ParseReturn \/ ConstructStep

Spec == Init /\ [][Next]_vars

(***************************************************************************)
(* What the properties below speak of.                                     *)
(***************************************************************************)
\* a call of parse has got past its first test
Parsing == pc \in {"loop", "returned", "raised"}

\* the text is empty or made of whitespace only
IsBlank(t) == \A i \in 1..Len(t) : t[i] \in Whitespace

\* the pieces of a normalized text between its commas, trimmed, without the
\* empty ones
NonEmptySegments(n) ==
  LET pieces == StrSplit(n, ",")
  IN  SelectSeq([i \in 1..Len(pieces) |-> StrStrip(pieces[i])], LAMBDA p : p # <<>>)

\* the segment matches none of the five rules
MatchesNoRule(part) ==
  \A re \in {interval_pattern, simple_step_pattern, target_first_pattern,
             duration_only_pattern, open_step_pattern} : IsNone(ReMatch(re, part))

\* parse has failed on a segment: the segment its error names
FailedPart ==
  IF pc = "raised" /\ ~result.ok /\ "part" \in DOMAIN result.err
  THEN Some(result.err.part) ELSE None

\* the error that made parse fail on a segment
FailedCause == result.err.cause

\* a step and every step below it
RECURSIVE StepsIn(_)
StepsIn(step) ==
  {step} \cup
  (IF IsNone(step.repeat_steps) THEN {}
   ELSE UNION {StepsIn(Get(step.repeat_steps)[i]) : i \in 1..Len(Get(step.repeat_steps))})

\* every step that has been constructed: by the parser, or by a program
BuiltSteps ==
  UNION {StepsIn(steps[i]) : i \in 1..Len(steps)}
  \cup (IF obj.ok THEN StepsIn(obj.val) ELSE {})

\* the arguments of the construction, with the defaults of the fields left out
CallArgs == call @@ StepDefaults

\* the keyword's class in the shorthand's vocabulary; w is a keyword as written
KeywordClass(w) ==
  LET k == SelectSeq(w, LAMBDA c : c \notin Whitespace)
  IN  IF k \in {<<"w", "a", "r", "m", "u", "p">>, <<"w", "u">>} THEN "warmup"
      ELSE IF k \in {<<"c", "o", "o", "l", "d", "o", "w", "n">>, <<"c", "d">>} THEN "cooldown"
      ELSE IF k \in {<<"r", "e", "c", "o", "v", "e", "r", "y">>, <<"r", "e", "c", "o", "v", "e", "r">>,
                     <<"r", "e", "s", "t">>, <<"e", "a", "s", "y">>, <<"j", "o", "g">>}
      THEN "recovery"
      ELSE "interval"

\* the step has no children and no repeat count
IsLeaf(step) ==
  step.step_type # "repeat" /\ IsNone(step.repeat_count) /\ IsNone(step.repeat_steps)

\* the step has none of the three target payloads
NoPayload(step) ==
  IsNone(step.pace_target) /\ IsNone(step.hr_target) /\ IsNone(step.cadence_target)

\* the segment is handled by the interval rule
IsIntervalSegment(part) == ~IsNone(ReMatch(interval_pattern, part))

\* the segment is handled by the simple, target-first or duration-only rule
IsLeafRuleSegment(part) ==
  /\ ~IsIntervalSegment(part)
  /\ \/ ~IsNone(ReMatch(simple_step_pattern, part))
     \/ ~IsNone(ReMatch(target_first_pattern, part))
     \/ ~IsNone(ReMatch(duration_only_pattern, part))

\* the segment is exactly one step-type keyword or alias
IsBareKeyword(part) == ~IsNone(ReMatch(open_step_pattern, part))

(***************************************************************************)
(* C1.  parse(text) fails with the empty-input error, and returns no       *)
(* Workout, for every text that is empty or made of whitespace only.       *)
(***************************************************************************)
C1_EmptyInputFails ==
  Parsing /\ IsBlank(text) => pc = "raised" /\ result = Raise(EmptyInputError)

\* parse has failed on a text of whitespace
C1_Witness ==
  pc = "raised" /\ text # <<>> /\ IsBlank(text) /\ result = Raise(EmptyInputError)

(***************************************************************************)
(* C2 as claimed.  If any segment matches none of the five rules, parse    *)
(* fails with the cannot-parse error naming that segment, whatever the     *)
(* other segments are.                                                     *)
(***************************************************************************)
C2_AnyUnparsableSegmentIsNamed ==
  pc \in {"returned", "raised"} =>
    \A i \in 1..Len(parts) :
      MatchesNoRule(parts[i]) =>
        pc = "raised" /\ result = Raise(ParseStepError(parts[i], "Cannot parse step"))

(***************************************************************************)
(* C2.  If any segment matches none of the five rules, parse fails and     *)
(* returns no Workout, however many other segments are valid.  The error   *)
(* names the first segment, in input order, that cannot be built; it is    *)
(* the cannot-parse error exactly when that segment matches no rule.       *)
(***************************************************************************)
C2_FirstFailingSegmentIsNamed ==
  /\ pc = "returned" => \A i \in 1..Len(parts) : ~MatchesNoRule(parts[i])
  /\ pc = "raised" /\ parts # <<>> =>
       LET k == Len(steps) + 1
       IN  /\ k <= Len(parts)
           /\ ~result.ok
           /\ FailedPart = Some(parts[k])
           /\ (FailedCause = "Cannot parse step") = MatchesNoRule(parts[k])
           /\ \A i \in 1..(k - 1) : ~MatchesNoRule(parts[i])

\* parse has failed on an unparsable segment that follows a valid one
C2_Witness ==
  /\ pc = "raised" /\ Len(steps) >= 1
  /\ FailedPart = Some(parts[Len(steps) + 1])
  /\ MatchesNoRule(parts[Len(steps) + 1])

(***************************************************************************)
(* C3.  A successful parse returns a Workout named "Untitled Workout" with *)
(* sport_type "running" whose steps are one step per non-empty segment of  *)
(* the normalized text, in input order, step i built from segment i alone. *)
(***************************************************************************)
C3_OneStepPerSegment ==
  pc = "returned" =>
    /\ result.ok
    /\ result.val.name = UntitledWorkout
    /\ result.val.sport_type = Running
    /\ LET segs == NonEmptySegments(_normalize_text(text))
       IN  /\ Len(result.val.steps) = Len(segs)
           /\ \A i \in 1..Len(segs) :
                /\ _parse_step(segs[i]).ok
                /\ result.val.steps[i] = _parse_step(segs[i]).val

\* a workout of two different steps has been returned, from a text with an
\* empty piece between separators
C3_Witness ==
  /\ pc = "returned" /\ Len(result.val.steps) = 2
  /\ result.val.steps[1] # result.val.steps[2]
  /\ Len(StrSplit(normalized, ",")) > 2

(***************************************************************************)
(* C4 as claimed.  A segment matching the interval rule yields one Repeat  *)
(* step: parse never fails on such a segment.                              *)
(***************************************************************************)
C4_IntervalSegmentAlwaysBuilds ==
  \A p \in FailedPart : ~IsIntervalSegment(p)

\* the interval segment can be built: the count is 1..99, the magnitudes are
\* positive and the target clause resolves without an error
IntervalBuildable(part) ==
  LET m == Get(ReMatch(interval_pattern, part))
  IN  /\ PyInt(Get(Group(part, m, 1))) \in 1..99
      /\ PyFloat(Get(Group(part, m, 2))) > 0
      /\ _parse_target(Group(part, m, 4)).ok
      /\ ~IsNone(Group(part, m, 5)) => PyFloat(Get(Group(part, m, 5))) > 0

\* step is the Repeat step the interval segment describes
IsIntervalResult(step, part) ==
  LET m     == Get(ReMatch(interval_pattern, part))
      rec   == ~IsNone(Group(part, m, 5))
      work  == _parse_duration(PyFloat(Get(Group(part, m, 2))), Get(Group(part, m, 3))).val
      rest  == _parse_duration(PyFloat(Get(Group(part, m, 5))), Get(Group(part, m, 6))).val
      child == Get(step.repeat_steps)
  IN  /\ step.step_type = "repeat"
      /\ step.repeat_count = Some(PyInt(Get(Group(part, m, 1))))
      /\ step.duration_type = "open" /\ IsNone(step.duration_value)
      /\ step.target_type = "open" /\ NoPayload(step)
      /\ ~IsNone(step.repeat_steps)
      /\ Len(child) = IF rec THEN 2 ELSE 1
      /\ child[1].step_type = "interval" /\ IsLeaf(child[1])
      /\ child[1].duration_type = work[1]
      /\ child[1].duration_value = Some(work[2])
      /\ child[1].duration_unit = Some(Get(Group(part, m, 3)))
      /\ <<child[1].target_type, child[1].pace_target, child[1].hr_target>>
           = _parse_target(Group(part, m, 4)).val
      /\ IsNone(child[1].cadence_target)
      /\ rec => /\ child[2].step_type = "recovery" /\ IsLeaf(child[2])
                /\ child[2].duration_type = rest[1]
                /\ child[2].duration_value = Some(rest[2])
                /\ child[2].duration_unit = Some(Get(Group(part, m, 6)))
                /\ child[2].target_type = "open" /\ NoPayload(child[2])

(***************************************************************************)
(* C4.  A segment matching the interval rule whose count is 1..99, whose   *)
(* magnitudes are positive and whose target resolves without an error      *)
(* yields one Repeat step with repeat_count = N, Open duration and Open    *)
(* target, whose children are an Interval step with the work duration and  *)
(* the resolved target, then a Recovery step with the recovery duration    *)
(* and Open target iff a recovery clause was written.  On any other        *)
(* interval segment parse fails with an error naming the segment.          *)
(***************************************************************************)
C4_IntervalSegmentRepeat ==
  /\ \A i \in 1..Len(steps) :
       IsIntervalSegment(parts[i]) =>
         IntervalBuildable(parts[i]) /\ IsIntervalResult(steps[i], parts[i])
  /\ \A p \in FailedPart :
       IsIntervalSegment(p) => ~IntervalBuildable(p) /\ FailedCause # "Cannot parse step"

\* a Repeat step with a recovery child has been built
C4_Witness ==
  \E i \in 1..Len(steps) :
    /\ IsIntervalSegment(parts[i])
    /\ steps[i].step_type = "repeat"
    /\ Len(Get(steps[i].repeat_steps)) = 2

(***************************************************************************)
(* C5 as claimed.  A segment matching the simple, target-first or          *)
(* duration-only rule yields exactly one leaf step: parse never fails on   *)
(* such a segment.                                                         *)
(***************************************************************************)
C5_LeafSegmentAlwaysBuilds ==
  \A p \in FailedPart : ~IsLeafRuleSegment(p)

\* the magnitude and the target clause of a segment of the three rules
LeafMagnitude(part) ==
  IF ~IsNone(ReMatch(simple_step_pattern, part))
  THEN PyFloat(Get(Group(part, Get(ReMatch(simple_step_pattern, part)), 1)))
  ELSE IF ~IsNone(ReMatch(target_first_pattern, part))
  THEN PyFloat(Get(Group(part, Get(ReMatch(target_first_pattern, part)), 2)))
  ELSE PyFloat(Get(Group(part, Get(ReMatch(duration_only_pattern, part)), 1)))

LeafTargetClause(part) ==
  IF ~IsNone(ReMatch(simple_step_pattern, part))
  THEN Group(part, Get(ReMatch(simple_step_pattern, part)), 4)
  ELSE IF ~IsNone(ReMatch(target_first_pattern, part))
  THEN Group(part, Get(ReMatch(target_first_pattern, part)), 4)
  ELSE Group(part, Get(ReMatch(duration_only_pattern, part)), 3)

\* the class of the keyword in the rule's keyword position: after the
\* duration in the simple rule, in front in the target-first rule; the
\* duration-only rule has no keyword
LeafKind(part) ==
  IF ~IsNone(ReMatch(simple_step_pattern, part))
  THEN KeywordClass(Get(Group(part, Get(ReMatch(simple_step_pattern, part)), 3)))
  ELSE IF ~IsNone(ReMatch(target_first_pattern, part))
  THEN KeywordClass(Get(Group(part, Get(ReMatch(target_first_pattern, part)), 1)))
  ELSE "interval"

LeafBuildable(part) ==
  LeafMagnitude(part) > 0 /\ _parse_target(LeafTargetClause(part)).ok

(***************************************************************************)
(* C5.  A segment matching the simple, target-first or duration-only rule  *)
(* whose magnitude is positive and whose target resolves without an error  *)
(* yields exactly one leaf step whose kind is the class of the step-type   *)
(* keyword in the rule's keyword position (Warmup, Cooldown, Recovery or   *)
(* Interval), and Interval for the duration-only rule, which has none.  On *)
(* any other such segment parse fails with an error naming the segment.    *)
(***************************************************************************)
C5_LeafSegmentKind ==
  /\ \A i \in 1..Len(steps) :
       IsLeafRuleSegment(parts[i]) =>
         /\ LeafBuildable(parts[i])
         /\ IsLeaf(steps[i])
         /\ steps[i].step_type = LeafKind(parts[i])
  /\ \A p \in FailedPart :
       IsLeafRuleSegment(p) => ~LeafBuildable(p) /\ FailedCause # "Cannot parse step"

\* a Cooldown step has been built from a segment with a duration
C5_Witness ==
  \E i \in 1..Len(steps) :
    IsLeafRuleSegment(parts[i]) /\ steps[i].step_type = "cooldown"

(***************************************************************************)
(* C6.  parse fails with the no-steps-found error for every text that is   *)
(* not empty or whitespace only (those fail with the empty-input error,    *)
(* C1) and whose normalized form splits into zero non-empty segments.      *)
(***************************************************************************)
C6_NoStepsFound ==
  Parsing /\ ~IsBlank(text) /\ NonEmptySegments(_normalize_text(text)) = <<>>
    => pc = "raised" /\ result = Raise(NoStepsFoundError)

\* parse has failed on a text of separators
C6_Witness ==
  /\ pc = "raised" /\ result = Raise(NoStepsFoundError)
  /\ \E i \in 1..Len(text) : text[i] \in {",", ";"}

(***************************************************************************)
(* C7.  A segment that is exactly one step-type keyword or alias yields    *)
(* one leaf step of that keyword's kind with duration Open (no magnitude)  *)
(* and target Open (no payload); parse never fails on such a segment.      *)
(***************************************************************************)
C7_BareKeywordOpenStep ==
  /\ \A i \in 1..Len(steps) :
       IsBareKeyword(parts[i]) =>
         /\ IsLeaf(steps[i])
         /\ steps[i].step_type = KeywordClass(parts[i])
         /\ steps[i].duration_type = "open"
         /\ IsNone(steps[i].duration_value) /\ IsNone(steps[i].duration_unit)
         /\ steps[i].target_type = "open" /\ NoPayload(steps[i])
  /\ \A p \in FailedPart : ~IsBareKeyword(p)

\* a Recovery step has been built from a bare keyword
C7_Witness ==
  \E i \in 1..Len(steps) : IsBareKeyword(parts[i]) /\ steps[i].step_type = "recovery"

(***************************************************************************)
(* C8.  Every constructed step, by the parser or by a program, has a       *)
(* duration magnitude iff its duration kind is not Open, and a magnitude   *)
(* that is present is positive; a construction that violates this fails.   *)
(***************************************************************************)
DurationConsistent(a) ==
  /\ IsNone(a.duration_value) = (a.duration_type = "open")
  /\ \A v \in a.duration_value : v > 0

C8_DurationMagnitude ==
  /\ \A s \in BuiltSteps : DurationConsistent(s)
  /\ pc = "built" /\ ~DurationConsistent(CallArgs) => ~obj.ok

\* a program has constructed a step with a magnitude
C8_Witness ==
  /\ pc = "built" /\ obj.ok
  /\ obj.val.duration_type = "time" /\ obj.val.duration_value = Some(5 * Unit)

(***************************************************************************)
(* C9.  Every constructed step has exactly the target payload of its       *)
(* declared target kind and no other: Pace has only pace_target, HeartRate *)
(* only hr_target, Cadence only cadence_target, Open none of the three.    *)
(***************************************************************************)
PayloadKinds(a) ==
  (IF IsNone(a.pace_target) THEN {} ELSE {"pace"})
  \cup (IF IsNone(a.hr_target) THEN {} ELSE {"heart_rate"})
  \cup (IF IsNone(a.cadence_target) THEN {} ELSE {"cadence"})

TargetConsistent(a) ==
  PayloadKinds(a) = IF a.target_type = "open" THEN {} ELSE {a.target_type}

C9_TargetPayload ==
  /\ \A s \in BuiltSteps : TargetConsistent(s)
  /\ pc = "built" /\ ~TargetConsistent(CallArgs) => ~obj.ok

\* a program has constructed a step with a cadence target
C9_Witness ==
  /\ pc = "built" /\ obj.ok
  /\ obj.val.target_type = "cadence" /\ obj.val.cadence_target = Some(Cadence180)

(***************************************************************************)
(* C10.  Every constructed step has repeat_count and a child sequence iff  *)
(* its kind is Repeat; for a Repeat step repeat_count is between 1 and 99  *)
(* and the child sequence is non-empty, for every other kind both are      *)
(* absent.                                                                 *)
(***************************************************************************)
RepeatConsistent(a) ==
  IF a.step_type = "repeat"
  THEN /\ ~IsNone(a.repeat_count) /\ Get(a.repeat_count) \in 1..99
       /\ ~IsNone(a.repeat_steps) /\ Len(Get(a.repeat_steps)) >= 1
  ELSE IsNone(a.repeat_count) /\ IsNone(a.repeat_steps)

C10_RepeatFields ==
  /\ \A s \in BuiltSteps : RepeatConsistent(s)
  /\ pc = "built" /\ ~RepeatConsistent(CallArgs) => ~obj.ok

\* a program has constructed a Repeat step of 99 repetitions
C10_Witness ==
  /\ pc = "built" /\ obj.ok
  /\ obj.val.step_type = "repeat" /\ obj.val.repeat_count = Some(99)

(***************************************************************************)
(* C11.  Repeat nesting is single-level: no constructed Repeat step, built *)
(* by the parser or by a program, has a child whose kind is Repeat.        *)
(***************************************************************************)
HasRepeatChild(s) ==
  /\ ~IsNone(s.repeat_steps)
  /\ \E i \in 1..Len(Get(s.repeat_steps)) : Get(s.repeat_steps)[i].step_type = "repeat"

C11_SingleLevelNesting ==
  \A s \in BuiltSteps : s.step_type = "repeat" => ~HasRepeatChild(s)

(***************************************************************************)
(* models/step.py and models/workout.py: the derived quantities.  A float  *)
(* is kept exactly: a duration_value counts thousandths (Unit), a length   *)
(* in meters counts 1/(100 * Unit) of a meter, so that 1609.34 meters per  *)
(* mile is the integer 160934 per thousandth of a mile; a time in seconds  *)
(* counts thousandths; a quotient is kept as numerator and denominator.    *)
(***************************************************************************)
get_duration_in_meters(self) ==
  IF self.duration_type # "distance" \/ IsNone(self.duration_value) THEN None
  ELSE IF self.duration_unit \in {Some(<<"k", "m">>), Some(<<"k">>),
                                  Some(<<"k", "i", "l", "o", "m", "e", "t", "e", "r", "s">>)}
  THEN Some(Get(self.duration_value) * 1000 * 100)
  ELSE IF self.duration_unit \in {Some(<<"m">>), Some(<<"m", "e", "t", "e", "r", "s">>),
                                  Some(<<"m", "e", "t", "r", "e">>)}
  THEN Some(Get(self.duration_value) * 100)
  ELSE IF self.duration_unit \in {Some(<<"m", "i">>), Some(<<"m", "i", "l", "e">>),
                                  Some(<<"m", "i", "l", "e", "s">>)}
  THEN Some(Get(self.duration_value) * 160934)
  ELSE Some(Get(self.duration_value) * 100)

get_duration_in_seconds(self) ==
  IF self.duration_type # "time" \/ IsNone(self.duration_value) THEN None
  ELSE IF self.duration_unit \in {Some(<<"m", "i", "n">>), Some(<<"m", "i", "n", "u", "t", "e">>),
                                  Some(<<"m", "i", "n", "u", "t", "e", "s">>)}
  THEN Some(Get(self.duration_value) * 60)
  ELSE IF self.duration_unit \in {Some(<<"s", "e", "c">>), Some(<<"s", "e", "c", "o", "n", "d">>),
                                  Some(<<"s", "e", "c", "o", "n", "d", "s">>), Some(<<"s">>)}
  THEN Some(Get(self.duration_value))
  ELSE IF self.duration_unit \in {Some(<<"h", "r">>), Some(<<"h", "o", "u", "r">>),
                                  Some(<<"h", "o", "u", "r", "s">>), Some(<<"h">>)}
  THEN Some(Get(self.duration_value) * 3600)
  ELSE Some(Get(self.duration_value))

\* step.step_type == StepType.REPEAT and step.repeat_steps
IsRepeatWithSteps(step) ==
  step.step_type = "repeat" /\ ~IsNone(step.repeat_steps) /\ Get(step.repeat_steps) # <<>>

\* step.repeat_count or 1
RepeatCountOr1(step) ==
  IF IsNone(step.repeat_count) \/ Get(step.repeat_count) = 0 THEN 1 ELSE Get(step.repeat_count)

\* the inner loop of get_total_distance_km over repeat_steps[i..]; None is
\* the early return
RECURSIVE RepeatDistance(_, _, _)
RepeatDistance(repeat_steps, i, repeat_distance) ==
  IF i > Len(repeat_steps) THEN Some(repeat_distance)
  ELSE IF IsNone(get_duration_in_meters(repeat_steps[i])) THEN None
  ELSE RepeatDistance(repeat_steps, i + 1,
                      repeat_distance + Get(get_duration_in_meters(repeat_steps[i])))

\* the outer loop of get_total_distance_km over steps[i..]
RECURSIVE TotalMeters(_, _, _)
TotalMeters(steps0, i, total_meters) ==
  IF i > Len(steps0) THEN Some(total_meters)
  ELSE IF IsRepeatWithSteps(steps0[i])
  THEN IF IsNone(RepeatDistance(Get(steps0[i].repeat_steps), 1, 0)) THEN None
       ELSE TotalMeters(steps0, i + 1,
                        total_meters + Get(RepeatDistance(Get(steps0[i].repeat_steps), 1, 0))
                                       * RepeatCountOr1(steps0[i]))
  ELSE IF IsNone(get_duration_in_meters(steps0[i])) THEN None
  ELSE TotalMeters(steps0, i + 1, total_meters + Get(get_duration_in_meters(steps0[i])))

get_total_distance_km(self) ==
  IF IsNone(TotalMeters(self.steps, 1, 0)) THEN None
  ELSE Some([num |-> Get(TotalMeters(self.steps, 1, 0)), den |-> 1000])

\* the inner loop of get_total_time_minutes
RECURSIVE RepeatTime(_, _, _)
RepeatTime(repeat_steps, i, repeat_time) ==
  IF i > Len(repeat_steps) THEN Some(repeat_time)
  ELSE IF IsNone(get_duration_in_seconds(repeat_steps[i])) THEN None
  ELSE RepeatTime(repeat_steps, i + 1,
                  repeat_time + Get(get_duration_in_seconds(repeat_steps[i])))

\* the outer loop of get_total_time_minutes
RECURSIVE TotalSeconds(_, _, _)
TotalSeconds(steps0, i, total_seconds) ==
  IF i > Len(steps0) THEN Some(total_seconds)
  ELSE IF IsRepeatWithSteps(steps0[i])
  THEN IF IsNone(RepeatTime(Get(steps0[i].repeat_steps), 1, 0)) THEN None
       ELSE TotalSeconds(steps0, i + 1,
                         total_seconds + Get(RepeatTime(Get(steps0[i].repeat_steps), 1, 0))
                                         * RepeatCountOr1(steps0[i]))
  ELSE IF IsNone(get_duration_in_seconds(steps0[i])) THEN None
  ELSE TotalSeconds(steps0, i + 1, total_seconds + Get(get_duration_in_seconds(steps0[i])))

get_total_time_minutes(self) ==
  IF IsNone(TotalSeconds(self.steps, 1, 0)) THEN None
  ELSE Some([num |-> Get(TotalSeconds(self.steps, 1, 0)), den |-> 60])

\* get_step_count that counts the children of a Repeat once
RECURSIVE get_step_count_Once(_, _, _)
get_step_count_Once(self, i, count) ==
  IF i > Len(self.steps) THEN count
  ELSE IF IsRepeatWithSteps(self.steps[i])
  THEN get_step_count_Once(self, i + 1, count + Len(Get(self.steps[i].repeat_steps)))
  ELSE get_step_count_Once(self, i + 1, count + 1)

\* get_step_count, from steps[i] on with the count so far
RECURSIVE get_step_count(_, _, _)
get_step_count(self, i, count) ==
  IF i > Len(self.steps) THEN count
  ELSE IF IsRepeatWithSteps(self.steps[i])
  THEN get_step_count(self, i + 1,
                      count + Len(Get(self.steps[i].repeat_steps)) * RepeatCountOr1(self.steps[i]))
  ELSE get_step_count(self, i + 1, count + 1)

(***************************************************************************)
(* A program that holds a Workout: it constructs one, as                   *)
(* examples/simple_workout.py does, and calls its accessors.               *)
(***************************************************************************)
\* WorkoutStep(step_type=..., duration_type=..., duration_value=...,
\* duration_unit=..., target_type=OPEN)
PlainStep(step_type, duration_type, value, unit) ==
  WorkoutStep([step_type |-> step_type, duration_type |-> duration_type,
               duration_value |-> value,
               duration_unit |-> IF IsNone(value) THEN None ELSE Some(unit),
               target_type |-> "open"]).val

\* WorkoutStep(step_type=REPEAT, ..., repeat_count=count, repeat_steps=children)
RepeatOf(duration_type, value, unit, count, children) ==
  WorkoutStep([step_type |-> "repeat", duration_type |-> duration_type,
               duration_value |-> value,
               duration_unit |-> IF IsNone(value) THEN None ELSE Some(unit),
               target_type |-> "open",
               repeat_count |-> Some(count), repeat_steps |-> Some(children)]).val

\* the steps a program puts in a Workout: leaves of every duration kind and
\* unit class, Repeat groups of one kind and of mixed kinds, a Repeat that
\* carries a duration of its own, and Repeat groups inside a Repeat
StepPool ==
  LET m400 == PlainStep("interval", "distance", Some(400 * Unit), <<"m">>)
      mile == PlainStep("warmup", "distance", Some(Unit \div 2), <<"m", "i">>)
      sec90 == PlainStep("recovery", "time", Some(90 * Unit), <<"s", "e", "c">>)
      hour == PlainStep("cooldown", "time", Some(Unit), <<"h", "r">>)
      open == PlainStep("cooldown", "open", None, <<>>)
      work == RepeatOf("open", None, <<>>, 3, <<LeafA, m400>>)
      rest == RepeatOf("open", None, <<>>, 99, <<LeafB, sec90>>)
      own == RepeatOf("distance", Some(2 * Unit), <<"k", "m">>, 2, <<LeafB>>)
      paced == RepeatOf("time", Some(10 * Unit), <<"m", "i", "n">>, 4, <<LeafA>>)
  IN  {LeafA, LeafB, m400, mile, sec90, hour, open, RepeatA, work, rest, own, paced,
       RepeatOf("open", None, <<>>, 1, <<work>>),
       RepeatOf("open", None, <<>>, 2, <<own, LeafA>>),
       RepeatOf("open", None, <<>>, 2, <<paced, LeafB>>)}

MaxSteps == 2

StepLists == UNION {[1..n -> StepPool] : n \in 0..MaxSteps}

\* the names a program gives: the default, one character, 100 characters, and
\* the two that the field refuses (empty, 101 characters)
WorkoutNames ==
  {UntitledWorkout, <<"T">>, [i \in 1..100 |-> "n"], <<>>, [i \in 1..101 |-> "n"]}

\* workout = Workout(name=name, sport_type="running", steps=steps)
CreateWorkout ==
  /\ pc = "idle"
  /\ \E name \in WorkoutNames, steps0 \in StepLists :
       /\ name = UntitledWorkout \/ Len(steps0) <= 1
       /\ call' = [name |-> name, steps |-> steps0]
       /\ obj' = Workout(name, Running, steps0)
       /\ workout' = IF obj'.ok THEN Some(obj'.val) ELSE None
  /\ pc' = "created"
  /\ UNCHANGED <<text, normalized, parts, steps, result, ret, screens, threads, parser>>

\* workout.get_total_distance_km()
GetTotalDistanceKm ==
  /\ pc = "created" /\ workout # None
  /\ ret' = [op |-> "get_total_distance_km", val |-> get_total_distance_km(Get(workout))]
  /\ UNCHANGED <<pc, text, normalized, parts, steps, result, call, obj,
                 workout, screens, threads, parser>>

\* workout.get_total_time_minutes()
GetTotalTimeMinutes ==
  /\ pc = "created" /\ workout # None
  /\ ret' = [op |-> "get_total_time_minutes", val |-> get_total_time_minutes(Get(workout))]
  /\ UNCHANGED <<pc, text, normalized, parts, steps, result, call, obj,
                 workout, screens, threads, parser>>

\* workout.get_step_count()
GetStepCount ==
  /\ pc = "created" /\ workout # None
  /\ ret' = [op |-> "get_step_count", val |-> get_step_count(Get(workout), 1, 0)]
  /\ UNCHANGED <<pc, text, normalized, parts, steps, result, call, obj,
                 workout, screens, threads, parser>>

(***************************************************************************)
(* tui/app.py and tui/widgets: what is done to a Workout after its         *)
(* construction.                                                           *)
(***************************************************************************)
\* date(year, month, day)
date(year, month, day) ==
  IF year < 1 \/ month < 1 \/ month > 12 \/ day < 1
     \/ day > (IF month = 2
               THEN (IF year % 4 = 0 /\ (year % 100 # 0 \/ year % 400 = 0) THEN 29 ELSE 28)
               ELSE IF month \in {4, 6, 9, 11} THEN 30 ELSE 31)
  THEN Raise("date value out of range")
  ELSE Ok([year |-> year, month |-> month, day |-> day])

\* date.fromisoformat for the form YYYY-MM-DD; any other text raises
fromisoformat(s) ==
  IF Len(s) = 10 /\ s[5] = "-" /\ s[8] = "-"
     /\ \A i \in {1, 2, 3, 4, 6, 7, 9, 10} : s[i] \in Digit
  THEN date(PyInt(SubSeq(s, 1, 4)), PyInt(SubSeq(s, 6, 7)), PyInt(SubSeq(s, 9, 10)))
  ELSE Raise("Invalid isoformat string")

\* what a user types in the name field and in the date field
NameInputs ==
  {<<>>, <<" ", " ">>, <<" ", "T", "e", "m", "p", "o", " ">>,
   [i \in 1..100 |-> "n"], [i \in 1..101 |-> "n"]}

DateInputs ==
  {<<>>, <<"2", "0", "2", "6", "-", "0", "2", "-", "2", "8">>,
   <<"2", "0", "2", "6", "-", "0", "2", "-", "3", "0">>, <<"s", "o", "o", "n">>}

\* try: workout.scheduled_date = date.fromisoformat(...) except ValueError: pass
WithDate(w, parsed) ==
  IF parsed.ok THEN [w EXCEPT !.scheduled_date = Some(parsed.val)] ELSE w

\* the body shared by MetadataScreen.action_save and MetadataForm.update_workout,
\* for the stripped values of the two fields: the attributes are assigned, and
\* assignment does not validate
WithFormValues(w, name, date_text) ==
  IF date_text # <<>>
  THEN WithDate([w EXCEPT !.name = IF name # <<>> THEN name ELSE @], fromisoformat(date_text))
  ELSE [w EXCEPT !.name = IF name # <<>> THEN name ELSE @]

\* WorkoutListWidget._flatten_steps: the displayed rows
RECURSIVE _flatten_steps(_, _)
_flatten_steps(self, i) ==
  IF i > Len(self.steps) THEN <<>>
  ELSE (IF IsRepeatWithSteps(self.steps[i])
        THEN <<<<self.steps[i], 0>>>>
             \o [j \in DOMAIN Get(self.steps[i].repeat_steps) |->
                   <<Get(self.steps[i].repeat_steps)[j], 1>>]
        ELSE <<<<self.steps[i], 0>>>>)
       \o _flatten_steps(self, i + 1)

\* the descriptions given to the command line
WorkoutTexts ==
  {<<"c", "o", "o", "l", "d", "o", "w", "n">>, <<"3", "x", " ", "1", "k", "+", "9", "0", "s", " ", "j", "o", "g">>,
   <<"1", "k", "m", " ", "w", "u", ",", "2", "x", " ", "4", "0", "0", "m", " ", "@", " ",
     "4", ":", "4", "5", ";", "c", "d">>,
   <<"f", "o", "o">>, <<" ">>}

\* the screen on top of the stack
TopScreen == IF screens = <<>> THEN "none" ELSE screens[Len(screens)].screen

\* cli.main: WorkoutEditorApp(parsed_workout).run() up to the first screen: on_mount pushes the
\* ReviewScreen, whose compose reads the three accessors for the summary
RunEditor ==
  /\ pc = "returned"
  /\ workout' = Some(result.val)
  /\ pc' = "editing"
  /\ screens' = <<[screen |-> "review", selected_index |-> 0]>>
  /\ ret' = [op |-> "compose",
             val |-> <<get_step_count(result.val, 1, 0),
                       get_total_distance_km(result.val),
                       get_total_time_minutes(result.val)>>]
  /\ UNCHANGED <<text, normalized, parts, steps, result, call, obj, threads, parser>>

\* action_cursor_down comparing with the number of rows instead of max_index
CursorDown_OffByOne ==
  /\ TopScreen = "review"
  /\ screens' = IF screens[1].selected_index < Len(_flatten_steps(Get(workout), 1))
                THEN [screens EXCEPT ![1].selected_index = @ + 1] ELSE screens
  /\ UNCHANGED <<pc, text, normalized, parts, steps, result, call, obj,
                 workout, ret, threads, parser>>

\* WorkoutListWidget.action_cursor_down
CursorDown ==
  /\ TopScreen = "review"
  /\ screens' = IF screens[1].selected_index < Len(_flatten_steps(Get(workout), 1)) - 1
                THEN [screens EXCEPT ![1].selected_index = @ + 1] ELSE screens
  /\ UNCHANGED <<pc, text, normalized, parts, steps, result, call, obj,
                 workout, ret, threads, parser>>

\* WorkoutListWidget.action_cursor_up
CursorUp ==
  /\ TopScreen = "review"
  /\ screens' = IF screens[1].selected_index > 0
                THEN [screens EXCEPT ![1].selected_index = @ - 1] ELSE screens
  /\ UNCHANGED <<pc, text, normalized, parts, steps, result, call, obj,
                 workout, ret, threads, parser>>

\* ReviewScreen.action_continue
ActionContinue ==
  /\ TopScreen = "review"
  /\ screens' = Append(screens, [screen |-> "metadata"])
  /\ UNCHANGED <<pc, text, normalized, parts, steps, result, call, obj,
                 workout, ret, threads, parser>>

\* ReviewScreen.on_cancel: self.app.exit(None)
OnCancel ==
  /\ TopScreen = "review"
  /\ screens' = <<>>
  /\ pc' = "exited"
  /\ ret' = [op |-> "run", val |-> None]
  /\ UNCHANGED <<text, normalized, parts, steps, result, call, obj, workout, threads, parser>>

\* MetadataScreen.action_back
ActionBack ==
  /\ TopScreen = "metadata"
  /\ screens' = SubSeq(screens, 1, Len(screens) - 1)
  /\ UNCHANGED <<pc, text, normalized, parts, steps, result, call, obj,
                 workout, ret, threads, parser>>

\* MetadataScreen.action_save that also empties the step list
ActionSave_ClearSteps ==
  /\ TopScreen = "metadata"
  /\ \E name_input \in NameInputs, date_input \in DateInputs :
       workout' = Some([WithFormValues(Get(workout), StrStrip(name_input), StrStrip(date_input))
                          EXCEPT !.steps = <<>>])
  /\ screens' = <<>>
  /\ pc' = "exited"
  /\ ret' = [op |-> "run", val |-> workout']
  /\ UNCHANGED <<text, normalized, parts, steps, result, call, obj, threads, parser>>

\* MetadataScreen.action_save
ActionSave ==
  /\ TopScreen = "metadata"
  /\ \E name_input \in NameInputs, date_input \in DateInputs :
       workout' = Some(WithFormValues(Get(workout), StrStrip(name_input), StrStrip(date_input)))
  /\ screens' = <<>>
  /\ pc' = "exited"
  /\ ret' = [op |-> "run", val |-> workout']
  /\ UNCHANGED <<text, normalized, parts, steps, result, call, obj, threads, parser>>

\* MetadataForm.update_workout(workout), for a form shown for a parsed workout
UpdateWorkout ==
  /\ pc = "returned"
  /\ \E name_input \in NameInputs, date_input \in DateInputs :
       workout' = Some(WithFormValues(result.val, StrStrip(name_input), StrStrip(date_input)))
  /\ pc' = "updated"
  /\ UNCHANGED <<text, normalized, parts, steps, result, call, obj,
                 ret, screens, threads, parser>>

InitWorkout ==
  /\ \/ pc = "call" /\ text \in WorkoutTexts
     \/ pc = "idle" /\ text = <<>>
  /\ normalized = <<>>
  /\ parts = <<>>
  /\ steps = <<>>
  /\ result = Pending
  /\ call = [step_type |-> "none"]
  /\ obj = Pending
  /\ Elsewhere

NextWorkout ==
  \/ ParseBegin \/ ParseLoop \/ ParseReturn
  \/ CreateWorkout \/ GetTotalDistanceKm \/ GetTotalTimeMinutes \/ GetStepCount
  \/ RunEditor \/ CursorDown \/ CursorUp \/ ActionContinue \/ OnCancel
  \/ ActionBack \/ ActionSave \/ UpdateWorkout

SpecWorkout == InitWorkout /\ [][NextWorkout]_vars

(***************************************************************************)
(* What the properties of the totals speak of.                             *)
(***************************************************************************)
\* the last call was accessor op of the Workout that is held
Returned(op) == workout # None /\ "op" \in DOMAIN ret /\ ret.op = op

\* the steps the totals range over: the top-level steps that are not Repeat
\* and every child of every Repeat
CoveredSteps(w) ==
  {w.steps[i] : i \in {j \in DOMAIN w.steps : w.steps[j].step_type # "repeat"}}
  \cup UNION {{Get(r.repeat_steps)[i] : i \in DOMAIN Get(r.repeat_steps)} :
                r \in {s \in UNION {StepsIn(w.steps[i]) : i \in DOMAIN w.steps} :
                         s.step_type = "repeat"}}

RECURSIVE SumSeq(_)
SumSeq(s) == IF s = <<>> THEN 0 ELSE Head(s) + SumSeq(Tail(s))

\* what a step contributes to the distance, when every covered step is a
\* distance: a leaf its meters, a Repeat repeat_count times its children's sum
RECURSIVE MetersOf(_)
MetersOf(step) ==
  IF step.step_type = "repeat"
  THEN Get(step.repeat_count)
       * SumSeq([i \in DOMAIN Get(step.repeat_steps) |-> MetersOf(Get(step.repeat_steps)[i])])
  ELSE Get(get_duration_in_meters(step))

(***************************************************************************)
(* C12.  get_total_distance_km returns a number iff every leaf step of the *)
(* workout (top-level leaves and every child of every Repeat) has duration *)
(* kind Distance; the number is then the sum of the leaves' meters, each   *)
(* Repeat contributing repeat_count times the sum of its children, divided *)
(* by 1000; otherwise it returns no value.                                 *)
(***************************************************************************)
C12_TotalDistance ==
  Returned("get_total_distance_km") =>
    IF \A s \in CoveredSteps(Get(workout)) : s.duration_type = "distance"
    THEN ret.val = Some([num |-> SumSeq([i \in DOMAIN Get(workout).steps |->
                                           MetersOf(Get(workout).steps[i])]),
                         den |-> 1000])
    ELSE ret.val = None


\* what a step contributes to the time, when every covered step is a time
RECURSIVE SecondsOf(_)
SecondsOf(step) ==
  IF step.step_type = "repeat"
  THEN Get(step.repeat_count)
       * SumSeq([i \in DOMAIN Get(step.repeat_steps) |-> SecondsOf(Get(step.repeat_steps)[i])])
  ELSE Get(get_duration_in_seconds(step))

(***************************************************************************)
(* C13.  get_total_time_minutes returns a number iff every leaf step       *)
(* (Repeat children included) has duration kind Time; the number is then   *)
(* the sum of the leaves' seconds, each Repeat contributing repeat_count   *)
(* times the sum of its children, divided by 60.                           *)
(***************************************************************************)
C13_TotalTime ==
  Returned("get_total_time_minutes") =>
    IF \A s \in CoveredSteps(Get(workout)) : s.duration_type = "time"
    THEN ret.val = Some([num |-> SumSeq([i \in DOMAIN Get(workout).steps |->
                                           SecondsOf(Get(workout).steps[i])]),
                         den |-> 60])
    ELSE ret.val = None


(***************************************************************************)
(* C14.  get_step_count is the sum over the top-level steps of             *)
(* len(children) * repeat_count for a Repeat step and 1 for every other.   *)
(***************************************************************************)
C14_StepCount ==
  Returned("get_step_count") =>
    ret.val = SumSeq([i \in DOMAIN Get(workout).steps |->
                        IF Get(workout).steps[i].step_type = "repeat"
                        THEN Len(Get(Get(workout).steps[i].repeat_steps))
                             * Get(Get(workout).steps[i].repeat_count)
                        ELSE 1])

\* the count of a workout of a leaf and a Repeat of 99 times two children
C14_Witness ==
  /\ Returned("get_step_count")
  /\ Len(Get(workout).steps) = 2
  /\ Get(workout).steps[1].step_type = "warmup"
  /\ Get(workout).steps[2].repeat_count = Some(99)
  /\ ret.val = 199


(***************************************************************************)
(* C15.  In every reachable state of a Workout, after construction and     *)
(* after any sequence of metadata updates (the TUI save action, the        *)
(* metadata form update, the web upload handler), its name has between 1   *)
(* and 100 characters and its notes, when present, have at most 500.       *)
(***************************************************************************)
C15_NameAndNotesInRange ==
  \A w \in workout :
    /\ Len(w.name) >= 1 /\ Len(w.name) <= 100
    /\ \A notes \in w.notes : Len(notes) <= 500

(***************************************************************************)
(* C16.  After a Workout is created its step sequence is never changed:    *)
(* every later operation (TUI review, cursor movement, back, save, the     *)
(* metadata update, the accessors) leaves the steps as constructed and     *)
(* changes at most name, scheduled date and notes, so that the workout has *)
(* at least one step in every reachable state; constructing a Workout with *)
(* an empty step list fails.                                               *)
(***************************************************************************)
C16_StepsNeverChange ==
  /\ [][\A w \in workout :
          /\ workout' # None
          /\ Get(workout').steps = w.steps
          /\ Get(workout').sport_type = w.sport_type]_vars
  /\ [](\A w \in workout : Len(w.steps) >= 1)
  /\ [](result.ok => Len(result.val.steps) >= 1)
  /\ [](pc = "created" /\ call.steps = <<>> => ~obj.ok /\ workout = None)

\* the editor has saved a new name for a parsed workout of three steps
C16_Witness ==
  /\ pc = "exited" /\ workout # None
  /\ Get(workout).name = <<"T", "e", "m", "p", "o">>
  /\ Get(workout).steps = result.val.steps
  /\ Len(Get(workout).steps) = 3


(***************************************************************************)
(* models/target.py: construction of the payloads and the pace strings.    *)
(***************************************************************************)
DigitChars == <<"0", "1", "2", "3", "4", "5", "6", "7", "8", "9">>

RECURSIVE PyStr(_)
\* str(n) for an int n >= 0
PyStr(n) ==
  IF n < 10 THEN <<DigitChars[n + 1]>>
  ELSE PyStr(n \div 10) \o <<DigitChars[(n % 10) + 1]>>

\* f"{n:02d}" for an int n >= 0
Format02d(n) == IF n < 10 THEN <<"0">> \o PyStr(n) ELSE PyStr(n)

\* to_pace_string with the seconds written as they are
to_pace_string_NoPad(self) ==
  PyStr(self.min_seconds_per_km \div 60) \o <<":">> \o PyStr(self.min_seconds_per_km % 60)

\* PaceTarget.to_pace_string
to_pace_string(self) ==
  PyStr(self.min_seconds_per_km \div 60) \o <<":">> \o Format02d(self.min_seconds_per_km % 60)

\* the payload classes
TargetKinds == {"pace", "heart_rate", "cadence"}

\* values of min_* and max_* around the limits of the three classes
TargetValues == {0, 39, 40, 59, 60, 150, 220, 221, 1200, 1201}

\* Cls(min=mn, max=mx) of the class of the kind
TargetOfKind(kind, mn, mx) ==
  CASE kind = "pace" -> PaceTarget(mn, mx)
    [] kind = "heart_rate" -> HeartRateTarget(mn, mx)
    [] kind = "cadence" -> CadenceTarget(mn, mx)

\* a program constructs one payload
ConstructTarget ==
  /\ pc = "idle"
  /\ \E kind \in TargetKinds, mn \in TargetValues,
        mx \in {None} \cup {Some(v) : v \in TargetValues} :
       /\ call' = [kind |-> kind, min |-> mn, max |-> mx]
       /\ obj' = TargetOfKind(kind, mn, mx)
  /\ pc' = "built"
  /\ UNCHANGED <<text, normalized, parts, steps, result>>
  /\ UNCHANGED <<workout, ret, screens, threads, parser>>

\* pace strings M:SS and MM:SS over some digits, and strings of other forms
PaceStrings ==
  {<<m, ":", s1, s2>> :
     m \in {"0", "1", "2", "5", "9"}, s1 \in {"0", "3", "5", "6", "9"}, s2 \in {"0", "5", "9"}}
  \cup {<<m1, m2, ":", s1, s2>> :
     m1 \in {"0", "1", "2", "9"}, m2 \in {"0", "5", "9"},
     s1 \in {"0", "3", "5", "6"}, s2 \in {"0", "9"}}
  \cup {<<" ", "5", ":", "3", "0">>, <<"5", ":", "3">>, <<"+", "5", ":", "3", "0">>,
        <<"5", ":", "3", "0", ":", "0", "0">>, <<"5", "3", "0">>, <<"a", ":", "3", "0">>,
        <<"5", ":", " ", "7">>, <<"1", "0", "0", ":", "0", "0">>, <<>>}

\* PaceTarget.from_pace_string(pace)
FromPaceString ==
  /\ pc = "idle"
  /\ \E pace \in PaceStrings :
       /\ call' = [pace |-> pace]
       /\ obj' = from_pace_string(pace)
  /\ pc' = "parsed"
  /\ UNCHANGED <<text, normalized, parts, steps, result>>
  /\ UNCHANGED <<workout, ret, screens, threads, parser>>

\* .to_pace_string() on the PaceTarget that from_pace_string returned
ToPaceString ==
  /\ pc = "parsed"
  /\ obj.ok
  /\ ret' = [op |-> "to_pace_string", val |-> to_pace_string(obj.val)]
  /\ pc' = "formatted"
  /\ UNCHANGED <<text, normalized, parts, steps, result, call, obj>>
  /\ UNCHANGED <<workout, screens, threads, parser>>

(***************************************************************************)
(* The target clause of one step.                                          *)
(***************************************************************************)
\* target clauses with and without a heart rate, with numbers of one to
\* four digits on both sides of the limits 40 and 220
HrClauses ==
  {<<"1", "6", "5", " ", "b", "p", "m">>, <<"1", "6", "5", "b", "p", "m">>, <<"1", "5", "0", " ", "b", "e", "a", "t", "s">>,
   <<"9", "9", "b", "e", "a", "t">>, <<"4", "0", "b", "p", "m">>, <<"2", "2", "0", "b", "p", "m">>,
   <<"4", ":", "3", "0", " ", "1", "6", "5", "b", "p", "m">>, <<"1", "6", "5", "b", "p", "m", " ", "4", ":", "3", "0">>, <<"5", "b", "p", "m">>,
   <<"1", "1", "5", "0", "b", "p", "m">>, <<"3", "0", "b", "p", "m">>, <<"2", "2", "1", "b", "p", "m">>,
   <<"1", "2", "3", "4", "b", "p", "m">>, <<"4", ":", "3", "0", " ", "5", "b", "p", "m">>, <<"4", ":", "3", "0">>,
   <<"e", "a", "s", "y">>, <<"1", "6", "5", " ", "b", "p">>, <<"h", "r", " ", "1", "5", "0", " ", "b", "e", "a", "t", "s", " ", "p", "e", "r", " ", "m", "i", "n">>}

\* target clauses with a colon: whole pace tokens, broken ones and tokens that
\* are part of a longer run of digits and colons
ColonClauses ==
  {<<"5", ":", "3">>, <<"a", ":", "3", "0">>, <<":", "3", "0">>,
   <<"5", ":">>, <<"1", ":", "2", "3", "4">>, <<"1", "2", "3", ":", "4", "5">>,
   <<"5", ":", "3", "0", ":", "0", "0">>, <<"5", " ", ":", " ", "3", "0">>, <<"5", ":", "9", "9">>,
   <<"4", ":", "3", "0">>, <<"4", ":", "4", "5", " ", "e", "a", "s", "y">>, <<"p", "a", "c", "e", " ", "1", "2", ":", "0", "5", "/", "k", "m">>,
   <<"0", ":", "3", "0">>, <<"2", "0", ":", "0", "1">>}

\* target clauses with neither a heart rate nor a colon
PlainClauses ==
  {<<"5", "k", "3", "0">>, <<"f", "a", "s", "t">>, <<"z", "o", "n", "e", " ", "2">>,
   <<"5", "3", "0">>, <<"5", ".", "3", "0">>, <<"1", "6", "5">>,
   <<"b", "p", "m">>, <<"@">>}

\* the target clauses that are tried
StepClauses == HrClauses \cup ColonClauses \cup PlainClauses

\* _parse_step on the segment "5min @ <clause>"
ParseStep ==
  /\ pc = "idle"
  /\ \E clause \in StepClauses :
       /\ call' = [part |-> <<"5", "m", "i", "n", " ", "@", " ">> \o clause, clause |-> clause]
       /\ obj' = _parse_step(call'.part)
  /\ pc' = "resolved"
  /\ UNCHANGED <<text, normalized, parts, steps, result>>
  /\ UNCHANGED <<workout, ret, screens, threads, parser>>


\* the unit tokens of the duration resolver's table, and two it does not know
UnitTokens ==
  {<<"k", "m">>, <<"k">>, <<"k", "i", "l", "o", "m", "e", "t", "e", "r", "s">>, <<"k", "i", "l", "o", "m", "e", "t", "e", "r">>,
   <<"m">>, <<"m", "e", "t", "e", "r", "s">>, <<"m", "e", "t", "e", "r">>, <<"m", "i">>,
   <<"m", "i", "l", "e">>, <<"m", "i", "l", "e", "s">>, <<"m", "i", "n">>, <<"m", "i", "n", "u", "t", "e">>,
   <<"m", "i", "n", "u", "t", "e", "s">>, <<"s", "e", "c">>, <<"s", "e", "c", "o", "n", "d">>, <<"s", "e", "c", "o", "n", "d", "s">>,
   <<"s">>, <<"h", "r">>, <<"h", "o", "u", "r">>, <<"h", "o", "u", "r", "s">>,
   <<"h">>, <<"k", "m", "s">>, <<"f", "u", "r", "l", "o", "n", "g">>}

\* duration values, in thousandths
DurationValues == {Unit, Unit + Unit \div 2, 10 * Unit}

\* the step the builders construct for a duration (_parse_duration, then
\* WorkoutStep), then its two conversions
ConvertDuration ==
  /\ pc = "idle"
  /\ \E value \in DurationValues, unit \in UnitTokens :
       /\ call' = [value |-> value, unit |-> unit]
       /\ obj' = LeafStep("interval", value, unit, None)
       /\ ret' = IF obj'.ok
                 THEN [op |-> "get_duration_in", meters |-> get_duration_in_meters(obj'.val),
                       seconds |-> get_duration_in_seconds(obj'.val)]
                 ELSE Pending
  /\ pc' = "converted"
  /\ UNCHANGED <<text, normalized, parts, steps, result>>
  /\ UNCHANGED <<workout, screens, threads, parser>>

InitTarget ==
  /\ pc = "idle"
  /\ text = <<>>
  /\ normalized = <<>>
  /\ parts = <<>>
  /\ steps = <<>>
  /\ result = Pending
  /\ call = [step_type |-> "none"]
  /\ obj = Pending
  /\ Elsewhere

NextTarget ==
  \/ ConstructTarget \/ FromPaceString \/ ToPaceString \/ ParseStep
  \/ ConvertDuration

SpecTarget == InitTarget /\ [][NextTarget]_vars

\* the limits of the claim for the class of the kind
ClaimedRange(kind) ==
  CASE kind = "pace" -> 60..1200
    [] kind = "heart_rate" -> 40..220
    [] kind = "cadence" -> 60..220

\* min and max of a constructed payload
PayloadMin(kind, val) ==
  CASE kind = "pace" -> val.min_seconds_per_km
    [] kind = "heart_rate" -> val.min_bpm
    [] kind = "cadence" -> val.min_spm

PayloadMax(kind, val) ==
  CASE kind = "pace" -> val.max_seconds_per_km
    [] kind = "heart_rate" -> val.max_bpm
    [] kind = "cadence" -> val.max_spm

\* a payload has been constructed, or its construction has failed
TargetBuilt == pc = "built" /\ "kind" \in DOMAIN call

(***************************************************************************)
(* C17.  Every successfully constructed target payload is within range:    *)
(* min_seconds_per_km in 60..1200, min_bpm in 40..220, min_spm in 60..220, *)
(* the optional max in the same range and not smaller than min; a          *)
(* construction outside these bounds fails.                                *)
(***************************************************************************)
C17_TargetsInRange ==
  TargetBuilt =>
    /\ obj.ok =>
         /\ PayloadMin(call.kind, obj.val) \in ClaimedRange(call.kind)
         /\ \A mx \in PayloadMax(call.kind, obj.val) :
              mx \in ClaimedRange(call.kind) /\ mx >= PayloadMin(call.kind, obj.val)
    /\ ~obj.ok <=>
         \/ call.min \notin ClaimedRange(call.kind)
         \/ \E mx \in call.max : mx \notin ClaimedRange(call.kind) \/ mx < call.min

\* HeartRateTarget(min_bpm=150, max_bpm=220) is constructed
C17_Witness ==
  /\ TargetBuilt /\ obj.ok /\ call.kind = "heart_rate"
  /\ obj.val = [min_bpm |-> 150, max_bpm |-> Some(220)]

\* s is M:SS or MM:SS in digits, with no leading zero in the minutes
IsPaceForm(s) ==
  /\ Len(s) \in {4, 5}
  /\ s[Len(s) - 2] = ":"
  /\ \A i \in (1..Len(s)) \ {Len(s) - 2} : s[i] \in Digit
  /\ Len(s) = 5 => s[1] # "0"

(***************************************************************************)
(* C18.  Pace strings round-trip: for every valid pace string s of the     *)
(* form M:SS or MM:SS with 0 <= SS < 60, written without a leading zero in *)
(* the minutes, from_pace_string(s).to_pace_string() equals s.             *)
(***************************************************************************)
C18_PaceRoundTrip ==
  pc = "formatted" /\ IsPaceForm(call.pace) => ret.val = call.pace

\* "19:59" has gone through from_pace_string and to_pace_string
C18_Witness ==
  /\ pc = "formatted" /\ IsPaceForm(call.pace)
  /\ call.pace = <<"1", "9", ":", "5", "9">>
  /\ obj.val.min_seconds_per_km = 1199
  /\ ret.val = <<"1", "9", ":", "5", "9">>


\* the end of the run of digits that starts or passes at position i
DigitsEnd(s, i) ==
  CHOOSE j \in i..Len(s) :
    /\ \A k \in i..j : s[k] \in Digit
    /\ j = Len(s) \/ s[j + 1] \notin Digit

\* position after the white space that starts at position i
SkipSpaces(s, i) ==
  CHOOSE j \in i..(Len(s) + 1) :
    /\ \A k \in i..(j - 1) : s[k] = " "
    /\ j = Len(s) + 1 \/ s[j] # " "

\* word w stands in s at position i
StandsAt(s, i, w) == i + Len(w) - 1 <= Len(s) /\ SubSeq(s, i, i + Len(w) - 1) = w

\* the whole numbers of the clause that bpm or beat(s) follows immediately
HrNumbers(s) ==
  {PyInt(SubSeq(s, i, DigitsEnd(s, i))) :
     i \in {k \in 1..Len(s) :
              /\ s[k] \in Digit
              /\ k = 1 \/ s[k - 1] \notin Digit
              /\ \/ StandsAt(s, SkipSpaces(s, DigitsEnd(s, k) + 1), <<"b", "p", "m">>)
                 \/ StandsAt(s, SkipSpaces(s, DigitsEnd(s, k) + 1), <<"b", "e", "a", "t">>)}}

(***************************************************************************)
(* C19.  When the target clause of a step contains a number immediately    *)
(* followed by bpm or beat(s), the step's target is HeartRate with min_bpm *)
(* equal to that whole number and no max, also when the clause contains an *)
(* M:SS pace token as well.                                                *)
(***************************************************************************)
C19_HeartRateRule ==
  pc = "resolved" /\ obj.ok /\ HrNumbers(call.clause) # {} =>
    /\ obj.val.target_type = "heart_rate"
    /\ obj.val.pace_target = None
    /\ \E hr \in obj.val.hr_target :
         hr.min_bpm \in HrNumbers(call.clause) /\ hr.max_bpm = None


(***************************************************************************)
(* One parser shared by several calls of parse (main.py: parser =          *)
(* RegexWorkoutParser() at module level, used by every request).  Each     *)
(* call has its own locals; the patterns are read from the shared object.  *)
(***************************************************************************)
MaxThreads == 2

\* the locals of a call of parse(text) that has not started
ParseCall(text0) ==
  [pc |-> "call", text |-> text0, normalized |-> <<>>, parts |-> <<>>,
   steps |-> <<>>, result |-> Pending]

\* self._parse_step(part): the five patterns are attributes of self
SelfParseStep(self, part) ==
  StepOfMatches(part, ReMatch(self.interval_pattern, part),
                ReMatch(self.simple_step_pattern, part),
                ReMatch(self.target_first_pattern, part),
                ReMatch(self.duration_only_pattern, part),
                ReMatch(self.open_step_pattern, part))

\* parse after parts = self._split_workout(normalized)
CallAfterSplit(th, normalized0, parts0) ==
  IF parts0 = <<>>
  THEN [th EXCEPT !.normalized = normalized0, !.parts = parts0,
                  !.pc = "raised", !.result = Raise(NoStepsFoundError)]
  ELSE [th EXCEPT !.normalized = normalized0, !.parts = parts0, !.pc = "loop"]

\* parse after normalized = self._normalize_text(text)
CallAfterNormalize(th, normalized0) ==
  CallAfterSplit(th, normalized0, _split_workout(normalized0))

\* parse after step = self._parse_step(part) has returned or raised
CallAfterStep(th, part, step) ==
  IF step.ok THEN [th EXCEPT !.steps = Append(@, step.val)]
  ELSE [th EXCEPT !.pc = "raised", !.result = Raise(ParseStepError(part, step.err))]

\* parse after the loop, workout being what Workout(...) returned or raised
CallAfterLoop(th, workout0) ==
  [th EXCEPT !.result = workout0, !.pc = IF workout0.ok THEN "returned" ELSE "raised"]

\* call t runs parse to the start of its loop
ThreadBegin(t) ==
  /\ threads[t].pc = "call"
  /\ threads' = [threads EXCEPT ![t] =
                   IF IsEmptyInput(@.text)
                   THEN [@ EXCEPT !.pc = "raised", !.result = Raise(EmptyInputError)]
                   ELSE CallAfterNormalize(@, _normalize_text(@.text))]
  /\ UNCHANGED <<pc, text, normalized, parts, steps, result, call, obj>>
  /\ UNCHANGED <<workout, ret, screens, parser>>

\* ThreadLoop of a parser that keeps a pattern of its own up to date: it
\* assigns self.interval_pattern in the loop
ThreadLoop_AssignPattern(t) ==
  /\ threads[t].pc = "loop"
  /\ Len(threads[t].steps) < Len(threads[t].parts)
  /\ threads' = [threads EXCEPT ![t] =
                   CallAfterStep(@, @.parts[Len(@.steps) + 1],
                                 SelfParseStep(parser, @.parts[Len(@.steps) + 1]))]
  /\ parser' = [parser EXCEPT !.interval_pattern = parser.simple_step_pattern]
  /\ UNCHANGED <<pc, text, normalized, parts, steps, result, call, obj>>
  /\ UNCHANGED <<workout, ret, screens>>

\* call t runs one iteration of its loop
ThreadLoop(t) ==
  /\ threads[t].pc = "loop"
  /\ Len(threads[t].steps) < Len(threads[t].parts)
  /\ threads' = [threads EXCEPT ![t] =
                   CallAfterStep(@, @.parts[Len(@.steps) + 1],
                                 SelfParseStep(parser, @.parts[Len(@.steps) + 1]))]
  /\ UNCHANGED <<pc, text, normalized, parts, steps, result, call, obj>>
  /\ UNCHANGED <<workout, ret, screens, parser>>

\* call t creates the workout and returns
ThreadReturn(t) ==
  /\ threads[t].pc = "loop"
  /\ Len(threads[t].steps) = Len(threads[t].parts)
  /\ threads' = [threads EXCEPT ![t] =
                   CallAfterLoop(@, Workout(UntitledWorkout, Running, @.steps))]
  /\ UNCHANGED <<pc, text, normalized, parts, steps, result, call, obj>>
  /\ UNCHANGED <<workout, ret, screens, parser>>

InitShared ==
  /\ pc = "serving"
  /\ text = <<>>
  /\ normalized = <<>>
  /\ parts = <<>>
  /\ steps = <<>>
  /\ result = Pending
  /\ call = [step_type |-> "none"]
  /\ obj = Pending
  /\ workout = None
  /\ ret = Pending
  /\ screens = <<>>
  /\ threads \in [1..MaxThreads -> {ParseCall(t) : t \in WorkoutTexts}]
  /\ parser = RegexWorkoutParser

NextShared ==
  \/ \E t \in DOMAIN threads : ThreadBegin(t)
  \/ \E t \in DOMAIN threads : ThreadLoop(t)
  \/ \E t \in DOMAIN threads : ThreadReturn(t)

SpecShared == InitShared /\ [][NextShared]_vars

(***************************************************************************)
(* parse as one call on a parser of its own: what a call returns when      *)
(* nothing else runs.                                                      *)
(***************************************************************************)
RECURSIVE ParseFrom(_, _, _), ParseNext(_, _, _, _)
\* the loop of parse from parts[i] on
ParseFrom(parts0, i, steps0) ==
  IF i > Len(parts0) THEN Workout(UntitledWorkout, Running, steps0)
  ELSE ParseNext(parts0, i, steps0, _parse_step(parts0[i]))

\* one iteration of the loop, step being what _parse_step returned or raised
ParseNext(parts0, i, steps0, step) ==
  IF step.ok THEN ParseFrom(parts0, i + 1, Append(steps0, step.val))
  ELSE Raise(ParseStepError(parts0[i], step.err))

\* parse after the split
ParseOfParts(parts0) ==
  IF parts0 = <<>> THEN Raise(NoStepsFoundError) ELSE ParseFrom(parts0, 1, <<>>)

parse(text0) ==
  IF IsEmptyInput(text0) THEN Raise(EmptyInputError)
  ELSE ParseOfParts(_split_workout(_normalize_text(text0)))

\* call t has returned or raised
Finished(t) == threads[t].pc \in {"returned", "raised"}

(***************************************************************************)
(* C20.  Parsing is a pure function of the input text and keeps no state   *)
(* between calls: parse never writes to the parser after construction, and *)
(* under any interleaving of parse calls on one shared parser each call    *)
(* returns (or raises) what parsing its text alone on a fresh parser does. *)
(***************************************************************************)
C20_SharedParser ==
  /\ [][parser' = parser]_vars
  /\ [](parser = RegexWorkoutParser)
  /\ [](\A t \in DOMAIN threads : Finished(t) => threads[t].result = parse(threads[t].text))

\* two calls with different texts have both returned a workout while sharing
\* the parser
C20_Witness ==
  /\ Len(threads) = MaxThreads
  /\ \A t \in DOMAIN threads : threads[t].pc = "returned"
  /\ \E t, u \in DOMAIN threads :
       /\ Len(threads[t].result.val.steps) = 3
       /\ Len(threads[u].result.val.steps) = 1
       /\ threads[u].result.val.steps[1].step_type = "repeat"


(***************************************************************************)
(* The errors of the entity model.                                         *)
(***************************************************************************)
\* the limits of single fields: Field(gt=0), Field(ge=1, le=99) of WorkoutStep
\* and the ge/le limits of the target payloads
RangeErrors ==
  {"duration_value: input should be greater than 0",
   "repeat_count: input should be between 1 and 99",
   "min_seconds_per_km out of range", "max_seconds_per_km out of range",
   "min_bpm out of range", "max_bpm out of range",
   "min_spm out of range", "max_spm out of range"}

\* what the validators that compare several fields raise
CrossFieldErrors ==
  {"duration_value is required when duration_type is not OPEN",
   "duration_value must be None when duration_type is OPEN",
   "No target should be set when target_type is OPEN",
   "pace_target is required when target_type is PACE",
   "Only pace_target should be set when target_type is PACE",
   "hr_target is required when target_type is HEART_RATE",
   "Only hr_target should be set when target_type is HEART_RATE",
   "cadence_target is required when target_type is CADENCE",
   "Only cadence_target should be set when target_type is CADENCE",
   "repeat_count is required for REPEAT steps",
   "repeat_steps is required and must not be empty for REPEAT steps",
   "repeat_count should only be set for REPEAT steps",
   "repeat_steps should only be set for REPEAT steps",
   "max_seconds_per_km must be >= min_seconds_per_km",
   "max_bpm must be >= min_bpm", "max_spm must be >= min_spm"}

\* parse has failed on a segment that matches one of the five rules
FailedOnRuleSegment == \E p \in FailedPart : ~MatchesNoRule(p)

(***************************************************************************)
(* C21 as claimed.  Entity validation is unreachable through the grammar:  *)
(* parse never fails with a validation error of the entity model on a      *)
(* segment that matches one of the five rules.                             *)
(***************************************************************************)
C21_ValidationUnreachable ==
  FailedOnRuleSegment => FailedCause \notin RangeErrors \cup CrossFieldErrors

(***************************************************************************)
(* C21.  Through the grammar only the limits of single fields are          *)
(* reachable: when parse fails on a segment that matches one of the five   *)
(* rules, the error is a range error of the entity model (duration_value   *)
(* not positive, repeat_count outside 1..99, pace or heart rate outside    *)
(* its range) or the pace resolver's seconds error; the validators that    *)
(* compare several fields never fail on a step the builders construct.     *)
(***************************************************************************)
C21_OnlyRangeErrorsReachable ==
  FailedOnRuleSegment =>
    /\ FailedCause \in RangeErrors \cup {"Pace seconds must be < 60"}
    /\ FailedCause \notin CrossFieldErrors

\* parse has failed on an interval segment whose count is outside 1..99
C21_Witness ==
  /\ FailedOnRuleSegment
  /\ \E p \in FailedPart : IsIntervalSegment(p)
  /\ FailedCause = "repeat_count: input should be between 1 and 99"


\* s[i..j] is a whole pace token: one or two digits, a colon and two digits,
\* with neither a digit nor a colon before or after it
IsPaceTokenAt(s, i, j) ==
  /\ j - i \in {3, 4}
  /\ s[j - 2] = ":"
  /\ \A k \in (i..j) \ {j - 2} : s[k] \in Digit
  /\ i = 1 \/ s[i - 1] \notin Digit \cup {":"}
  /\ j = Len(s) \/ s[j + 1] \notin Digit \cup {":"}

HasPaceToken(s) == \E i \in 1..Len(s), j \in 1..Len(s) : i < j /\ IsPaceTokenAt(s, i, j)

HasColon(s) == \E i \in 1..Len(s) : s[i] = ":"

\* what from_pace_string raises on a string that is not M:SS
PaceFormatErrors ==
  {"Pace must be in format 'M:SS' or 'MM:SS'", "Pace must have exactly one ':'",
   "Pace minutes and seconds must be integers"}

(***************************************************************************)
(* C22.  When the target clause of a step contains a colon but no clean    *)
(* M:SS or MM:SS token (one or two digits, a colon, exactly two digits),   *)
(* resolving the target fails with the invalid-pace-format error and no    *)
(* step is built.                                                          *)
(***************************************************************************)
C22_BrokenPaceFails ==
  pc = "resolved" /\ HasColon(call.clause) /\ ~HasPaceToken(call.clause)
                  /\ HrNumbers(call.clause) = {} =>
    ~obj.ok /\ obj.err \in PaceFormatErrors


\* somewhere in s stand a digit, a colon and two digits
ContainsPace(s) ==
  \E i \in 1..Len(s) :
    /\ i + 3 <= Len(s)
    /\ s[i] \in Digit /\ s[i + 1] = ":" /\ s[i + 2] \in Digit /\ s[i + 3] \in Digit

(***************************************************************************)
(* C26.  A non-empty target clause that contains neither a number followed *)
(* by bpm or beat(s) nor an M:SS token (for example "5k30") is treated as  *)
(* no target: the step is built with target Open and no payload, without   *)
(* an error.                                                               *)
(***************************************************************************)
C26_UnknownClauseIsOpen ==
  pc = "resolved" /\ call.clause # <<>>
                  /\ HrNumbers(call.clause) = {} /\ ~ContainsPace(call.clause) =>
    /\ obj.ok
    /\ obj.val.target_type = "open"
    /\ NoPayload(obj.val)
    /\ obj.val.step_type = "interval"
    /\ obj.val.duration_value = Some(5 * Unit)

\* the step of "5min @ 5k30" has been built
C26_Witness ==
  /\ pc = "resolved" /\ call.clause = <<"5", "k", "3", "0">>
  /\ obj.ok /\ obj.val.target_type = "open" /\ NoPayload(obj.val)


(***************************************************************************)
(* _normalize_text on its own, applied to a text and to its own result,    *)
(* and can_parse.                                                          *)
(***************************************************************************)
\* self._normalize_text(...) of the text, then of what it returned; call keeps
\* the argument
NormalizeText ==
  /\ pc \in {"text", "normalized"}
  /\ call' = [arg |-> IF pc = "text" THEN text ELSE normalized]
  /\ normalized' = _normalize_text(call'.arg)
  /\ pc' = IF pc = "text" THEN "normalized" ELSE "renormalized"
  /\ UNCHANGED <<text, parts, steps, result, obj>>
  /\ UNCHANGED <<workout, ret, screens, threads, parser>>

\* RegexWorkoutParser._can_parse_part
_can_parse_part(part) ==
  IF ~IsNone(ReMatch(interval_pattern, part)) THEN TRUE
  ELSE IF ~IsNone(ReMatch(simple_step_pattern, part)) THEN TRUE
  ELSE IF ~IsNone(ReMatch(target_first_pattern, part)) THEN TRUE
  ELSE IF ~IsNone(ReMatch(duration_only_pattern, part)) THEN TRUE
  ELSE IF ~IsNone(ReMatch(open_step_pattern, part)) THEN TRUE
  ELSE FALSE

\* the loop of can_parse: False at the first part that cannot be parsed
CanParseParts(parts0) == \A i \in 1..Len(parts0) : _can_parse_part(parts0[i])

\* can_parse on an empty or blank text: False at once
CanParseBlank ==
  /\ pc = "text"
  /\ IsEmptyInput(text)
  /\ ret' = [op |-> "can_parse", val |-> FALSE]
  /\ pc' = "answered"
  /\ UNCHANGED <<text, normalized, parts, steps, result, call, obj>>
  /\ UNCHANGED <<workout, screens, threads, parser>>

\* can_parse on any other text, after normalized = self._normalize_text(text)
CanParse ==
  /\ pc = "normalized"
  /\ ~IsEmptyInput(text)
  /\ parts' = _split_workout(normalized)
  /\ ret' = [op |-> "can_parse", val |-> CanParseParts(parts')]
  /\ pc' = "answered"
  /\ UNCHANGED <<text, normalized, steps, result, call, obj>>
  /\ UNCHANGED <<workout, screens, threads, parser>>

InitNormalize ==
  /\ pc = "text"
  /\ text \in Texts
  /\ normalized = <<>>
  /\ parts = <<>>
  /\ steps = <<>>
  /\ result = Pending
  /\ call = [step_type |-> "none"]
  /\ obj = Pending
  /\ Elsewhere

NextNormalize == NormalizeText \/ CanParseBlank \/ CanParse

SpecNormalize == InitNormalize /\ [][NextNormalize]_vars

(***************************************************************************)
(* C23.  Normalization is idempotent: for every text t, normalizing the    *)
(* normalized form of t returns it unchanged.                              *)
(***************************************************************************)
C23_NormalizeIdempotent ==
  pc = "renormalized" => normalized = call.arg


\* the spellings of a unit that the claim names, with their canonical token
UnitSpellings ==
  {<<<<"k">>, <<"k", "m">>>>, <<<<"k", "m", "s">>, <<"k", "m">>>>,
   <<<<"k", "i", "l", "o", "m", "e", "t", "e", "r">>, <<"k", "m">>>>,
   <<<<"k", "i", "l", "o", "m", "e", "t", "e", "r", "s">>, <<"k", "m">>>>,
   <<<<"m", "i", "n", "s">>, <<"m", "i", "n">>>>,
   <<<<"m", "i", "n", "u", "t", "e">>, <<"m", "i", "n">>>>,
   <<<<"m", "i", "n", "u", "t", "e", "s">>, <<"m", "i", "n">>>>,
   <<<<"s", "e", "c", "s">>, <<"s", "e", "c">>>>,
   <<<<"s", "e", "c", "o", "n", "d">>, <<"s", "e", "c">>>>,
   <<<<"s", "e", "c", "o", "n", "d", "s">>, <<"s", "e", "c">>>>,
   <<<<"h", "o", "u", "r">>, <<"h", "r">>>>, <<<<"h", "o", "u", "r", "s">>, <<"h", "r">>>>}

\* parse has ended on the text "<n><sp><spelling> warmup"
ParsedSpelling(n, sp, spelling) ==
  /\ pc \in {"returned", "raised"}
  /\ text = n \o sp \o spelling \o <<" ", "w", "a", "r", "m", "u", "p">>

(***************************************************************************)
(* C24.  Unit spelling variants are canonicalized before matching: for     *)
(* every number and every accepted spelling of a unit (k, kms, kilometer,  *)
(* kilometers; mins, minute, minutes; secs, second, seconds; hour, hours)  *)
(* the parsed step's duration_unit is the canonical token (km, min, sec,   *)
(* hr) and its duration_value is the number as written.                    *)
(***************************************************************************)
C24_UnitsCanonical ==
  \A n \in Magnitudes, sp \in {<<>>, <<" ">>}, u \in UnitSpellings :
    ParsedSpelling(n, sp, u[1]) /\ PyFloat(n) > 0 =>
      /\ pc = "returned"
      /\ Len(steps) = 1
      /\ steps[1].duration_unit = Some(u[2])
      /\ steps[1].duration_value = Some(PyFloat(n))


\* the factor the claim gives for a unit token: meters per unit for the
\* kilometer and meter tokens, seconds per unit for the time tokens
ClaimedFactor(unit) ==
  CASE unit \in {<<"k", "m">>, <<"k">>, <<"k", "i", "l", "o", "m", "e", "t", "e", "r", "s">>,
                 <<"k", "i", "l", "o", "m", "e", "t", "e", "r">>} -> Some(1000)
    [] unit \in {<<"m">>, <<"m", "e", "t", "e", "r", "s">>, <<"m", "e", "t", "e", "r">>} -> Some(1)
    [] unit \in {<<"m", "i", "n">>, <<"m", "i", "n", "u", "t", "e">>,
                 <<"m", "i", "n", "u", "t", "e", "s">>} -> Some(60)
    [] unit \in {<<"h", "r">>, <<"h", "o", "u", "r">>, <<"h", "o", "u", "r", "s">>, <<"h">>} ->
         Some(3600)
    [] unit \in {<<"s", "e", "c">>, <<"s", "e", "c", "o", "n", "d">>,
                 <<"s", "e", "c", "o", "n", "d", "s">>, <<"s">>} -> Some(1)
    [] OTHER -> None

(***************************************************************************)
(* C25.  The unit conversions agree with the duration resolver's alias     *)
(* table: for every token the resolver accepts as Distance,                *)
(* get_duration_in_meters multiplies by 1000 for km, k, kilometers and     *)
(* kilometer and by 1 for m, meters and meter; for every token it accepts  *)
(* as Time, get_duration_in_seconds multiplies by 60 for the minute        *)
(* tokens, 3600 for the hour tokens and 1 for the second tokens.           *)
(***************************************************************************)
C25_ConversionsAgree ==
  pc = "converted" /\ obj.ok =>
    \A factor \in ClaimedFactor(call.unit) :
      IF obj.val.duration_type = "distance"
      THEN ret.meters = Some(call.value * factor * 100) /\ ret.seconds = None
      ELSE ret.seconds = Some(call.value * factor) /\ ret.meters = None


(***************************************************************************)
(* C27.  can_parse agrees with parse: for every text, can_parse(text)      *)
(* returns True exactly when parse(text) returns a Workout and False       *)
(* exactly when parse(text) raises.                                        *)
(***************************************************************************)
C27_CanParseAgrees ==
  pc = "answered" => (ret.val <=> parse(text).ok)

(***************************************************************************)
(* The review list.                                                        *)
(***************************************************************************)
\* the rows the review list displays for the workout that is edited
DisplayedRows == _flatten_steps(Get(workout), 1)

\* one row per top-level step plus one per child of a Repeat
RowCount(w) ==
  Len(w.steps)
  + SumSeq([i \in DOMAIN w.steps |->
               IF w.steps[i].step_type = "repeat" /\ ~IsNone(w.steps[i].repeat_steps)
               THEN Len(Get(w.steps[i].repeat_steps)) ELSE 0])

(***************************************************************************)
(* C30.  In the review list, after any sequence of cursor-up and           *)
(* cursor-down actions the selected index stays within 0 and the number of *)
(* displayed rows minus 1 (one row per top-level step plus one per Repeat   *)
(* child): cursor-down at the last row and cursor-up at the first row      *)
(* leave it unchanged.                                                     *)
(***************************************************************************)
C30_SelectedIndexInRange ==
  /\ [](\A i \in DOMAIN screens :
          screens[i].screen = "review" =>
            /\ Len(DisplayedRows) = RowCount(Get(workout))
            /\ screens[i].selected_index >= 0
            /\ screens[i].selected_index <= RowCount(Get(workout)) - 1)
  /\ [][/\ (CursorDown /\ screens[1].selected_index = RowCount(Get(workout)) - 1
             => screens' = screens)
        /\ (CursorUp /\ screens[1].selected_index = 0 => screens' = screens)]_vars

\* the cursor stands on the last of at least three rows, the child of a
\* Repeat, after it was moved down from row 0
C30_Witness ==
  /\ TopScreen = "review"
  /\ Len(DisplayedRows) >= 3
  /\ screens[1].selected_index = Len(DisplayedRows) - 1
  /\ DisplayedRows[Len(DisplayedRows)][2] = 1

(***************************************************************************)
(* garmin/converter.py.  A document is a record of the keys the converter  *)
(* sets; a speed in meters per second counts thousandths, rounded down.    *)
(***************************************************************************)
\* class StepType(str, Enum): the member names and their values
StepTypeMembers ==
  [WARMUP |-> "warmup", INTERVAL |-> "interval", RECOVERY |-> "recovery",
   COOLDOWN |-> "cooldown", REPEAT |-> "repeat"]

\* the entries of the dict display in WorkoutConverter.__init__, in the
\* order of their evaluation: StepType.<name>: self.STEP_TYPE_<name>
StepTypeEntries ==
  <<[name |-> "WARMUP", id |-> 1], [name |-> "COOLDOWN", id |-> 2],
    [name |-> "INTERVAL", id |-> 3], [name |-> "RECOVERY", id |-> 4],
    [name |-> "REST", id |-> 5], [name |-> "REPEAT", id |-> 6]>>

\* the evaluation of the dict display from entry i on: StepType.<name> of a
\* name that is no member of the enumeration raises AttributeError
RECURSIVE BuildStepTypeMap(_, _, _)
BuildStepTypeMap(entries, i, map) ==
  IF i > Len(entries) THEN Ok(map)
  ELSE IF entries[i].name \notin DOMAIN StepTypeMembers
  THEN Raise("AttributeError: " \o entries[i].name)
  ELSE BuildStepTypeMap(entries, i + 1,
                        map \cup {<<StepTypeMembers[entries[i].name], entries[i].id>>})

\* WorkoutConverter(): self.step_type_map is a set of <<step type, id>>
WorkoutConverter ==
  LET step_type_map == BuildStepTypeMap(StepTypeEntries, 1, {})
  IN  IF step_type_map.ok THEN Ok([step_type_map |-> step_type_map.val])
      ELSE step_type_map

\* self.step_type_map.get(step_type, self.STEP_TYPE_INTERVAL)
StepTypeId(self, step_type) ==
  IF \E e \in self.step_type_map : e[1] = step_type
  THEN (CHOOSE e \in self.step_type_map : e[1] = step_type)[2]
  ELSE 3

\* _get_sport_type_id
_get_sport_type_id(sport_type) ==
  IF StrLower(sport_type) = <<"c", "y", "c", "l", "i", "n", "g">> THEN 2
  ELSE IF StrLower(sport_type) = <<"s", "w", "i", "m", "m", "i", "n", "g">> THEN 3
  ELSE 1

\* _convert_duration
_convert_duration(step) ==
  IF step.duration_type = "open"
  THEN [conditionTypeId |-> 3, endConditionValue |-> None, unitId |-> None]
  ELSE IF step.duration_type = "distance"
  THEN [conditionTypeId |-> 1, endConditionValue |-> get_duration_in_meters(step),
        unitId |-> Some(3)]
  ELSE IF step.duration_type = "time"
  THEN [conditionTypeId |-> 2, endConditionValue |-> get_duration_in_seconds(step),
        unitId |-> Some(27)]
  ELSE [conditionTypeId |-> 3, endConditionValue |-> None, unitId |-> None]

\* _convert_target
_convert_target(step) ==
  IF step.target_type = "open"
  THEN [workoutTargetTypeId |-> 0, targetValueOne |-> None, targetValueTwo |-> None]
  ELSE IF step.target_type = "pace" /\ ~IsNone(step.pace_target)
  THEN LET pace == Get(step.pace_target)
           min_pace_ms == IF ~IsNone(pace.max_seconds_per_km)
                             /\ Get(pace.max_seconds_per_km) # 0
                          THEN Some((1000 * Unit) \div Get(pace.max_seconds_per_km))
                          ELSE None
           max_pace_ms == (1000 * Unit) \div pace.min_seconds_per_km
       IN  [workoutTargetTypeId |-> 1, targetValueOne |-> Some(max_pace_ms),
            targetValueTwo |-> min_pace_ms]
  ELSE IF step.target_type = "heart_rate" /\ ~IsNone(step.hr_target)
  THEN [workoutTargetTypeId |-> 2, targetValueOne |-> Some(Get(step.hr_target).min_bpm),
        targetValueTwo |-> Get(step.hr_target).max_bpm]
  ELSE IF step.target_type = "cadence" /\ ~IsNone(step.cadence_target)
  THEN [workoutTargetTypeId |-> 3, targetValueOne |-> Some(Get(step.cadence_target).min_spm),
        targetValueTwo |-> Get(step.cadence_target).max_spm]
  ELSE [workoutTargetTypeId |-> 0, targetValueOne |-> None, targetValueTwo |-> None]

\* _convert_single_step
_convert_single_step(self, step, step_order) ==
  [type |-> "ExecutableStepDTO", stepOrder |-> step_order,
   stepTypeId |-> StepTypeId(self, step.step_type),
   duration |-> _convert_duration(step), target |-> _convert_target(step)]

\* _convert_repeat_step: the children are numbered by child_order from 1
_convert_repeat_step(self, step, step_order) ==
  LET repeat_steps == IF IsNone(step.repeat_steps) THEN <<>> ELSE Get(step.repeat_steps)
  IN  [type |-> "RepeatGroupDTO", stepOrder |-> step_order,
       numberOfIterations |-> RepeatCountOr1(step), childStepId |-> 1,
       workoutSteps |-> [child_order \in 1..Len(repeat_steps) |->
                           _convert_single_step(self, repeat_steps[child_order], child_order)]]

\* _convert_steps: the loop body for steps[i], with step_order = i
_convert_steps(self, steps0) ==
  [step_order \in 1..Len(steps0) |->
     IF steps0[step_order].step_type = "repeat"
     THEN _convert_repeat_step(self, steps0[step_order], step_order)
     ELSE _convert_single_step(self, steps0[step_order], step_order)]

\* convert(workout)
convert(self, w) ==
  [workoutName |-> w.name,
   description |-> IF IsNone(w.notes) THEN <<>> ELSE Get(w.notes),
   sportTypeId |-> _get_sport_type_id(w.sport_type),
   workoutSegments |->
     <<[segmentOrder |-> 1, sportTypeId |-> _get_sport_type_id(w.sport_type),
        workoutSteps |-> _convert_steps(self, w.steps)]>>,
   scheduledDate |-> w.scheduled_date]


(***************************************************************************)
(* garmin/auth.py and garmin/client.py.  A GarminAuth is the record of     *)
(* _authenticated and of whether its token file exists; a method yields    *)
(* the object after the call, what it returned or raised, and the requests *)
(* it sent to the remote service.  What garth and the Garmin API answer is *)
(* the service's choice.                                                   *)
(***************************************************************************)
\* GarminAuth(): token_file tells whether a token file was left on disk
GarminAuth(token_file) == [_authenticated |-> FALSE, token_file |-> token_file]

\* login(email, password)
login(self, garth_ok) ==
  IF garth_ok
  THEN [self |-> [_authenticated |-> TRUE, token_file |-> TRUE],
        result |-> Ok("None"), sent |-> <<"garth.login">>]
  ELSE [self |-> self, result |-> Raise("Failed to login to Garmin Connect"),
        sent |-> <<"garth.login">>]

\* resume()
resume(self, garth_ok) ==
  IF ~self.token_file THEN [self |-> self, result |-> Ok(FALSE), sent |-> <<>>]
  ELSE IF garth_ok
  THEN [self |-> [self EXCEPT !._authenticated = TRUE], result |-> Ok(TRUE), sent |-> <<>>]
  ELSE [self |-> self, result |-> Ok(FALSE), sent |-> <<>>]

\* is_authenticated()
is_authenticated(self) == self._authenticated

\* logout()
logout(self) ==
  [self |-> [_authenticated |-> FALSE, token_file |-> FALSE],
   result |-> Ok("None"), sent |-> <<>>]

\* ensure_authenticated(email, password); credentials tells whether both
\* are given
ensure_authenticated(self, credentials, resume_ok, login_ok) ==
  LET resumed == resume(self, resume_ok) IN
  IF resumed.result.val THEN [resumed EXCEPT !.result = Ok("None")]
  ELSE IF ~credentials
  THEN [self |-> resumed.self, result |-> Raise("No saved authentication tokens found"),
        sent |-> <<>>]
  ELSE login(resumed.self, login_ok)

NotConnected == "Not connected to Garmin Connect. Call ensure_connected() first."

\* GarminClient(auth): self.auth is the caller's auth object, self.converter
\* = WorkoutConverter(), self._garmin = None; an exception of the converter's
\* constructor leaves the caller without a client
GarminClient ==
  LET converter == WorkoutConverter
  IN  IF converter.ok THEN Ok([converter |-> converter.val, _garmin |-> None])
      ELSE converter

\* ensure_connected(email, password) of client self whose auth is auth
ensure_connected(self, auth, credentials, resume_ok, login_ok) ==
  LET ensured == ensure_authenticated(auth, credentials, resume_ok, login_ok) IN
  [self |-> IF ensured.result.ok /\ IsNone(self._garmin)
            THEN [self EXCEPT !._garmin = Some("Garmin")] ELSE self,
   auth |-> ensured.self, result |-> ensured.result, sent |-> ensured.sent]

\* upload_workout(workout)
upload_workout(self, w, remote_ok) ==
  IF IsNone(self._garmin) THEN [result |-> Raise(NotConnected), sent |-> <<>>]
  ELSE LET workout_json == convert(self.converter, w) IN
       IF remote_ok
       THEN [result |-> Ok("response"), sent |-> <<[upload_workout |-> workout_json]>>]
       ELSE [result |-> Raise("Failed to upload workout to Garmin Connect"),
             sent |-> <<[upload_workout |-> workout_json]>>]

\* download_workout(workout_id)
download_workout(self, workout_id, remote_ok) ==
  IF IsNone(self._garmin) THEN [result |-> Raise(NotConnected), sent |-> <<>>]
  ELSE IF remote_ok
  THEN [result |-> Ok("response"), sent |-> <<[get_workout |-> workout_id]>>]
  ELSE [result |-> Raise("Failed to download workout from Garmin Connect"),
        sent |-> <<[get_workout |-> workout_id]>>]

\* list_workouts(start, limit)
list_workouts(self, start, limit, remote_ok) ==
  IF IsNone(self._garmin) THEN [result |-> Raise(NotConnected), sent |-> <<>>]
  ELSE IF remote_ok
  THEN [result |-> Ok("response"), sent |-> <<[get_workouts |-> <<start, limit>>]>>]
  ELSE [result |-> Raise("Failed to list workouts from Garmin Connect"),
        sent |-> <<[get_workouts |-> <<start, limit>>]>>]

(***************************************************************************)
(* The statements of a program that syncs with Garmin Connect (cli.main,   *)
(* examples/reverse_engineer_format.py).  obj holds the auth object and    *)
(* what client = GarminClient(auth) gave; ret is the outcome of the last   *)
(* statement.  A method of the client is entered only when the constructor *)
(* has returned a client: when it raised, the flow that would call the     *)
(* method ends with the constructor's exception.                           *)
(***************************************************************************)
\* the workouts handed to the converter and to upload_workout
GarminWorkouts ==
  LET wu == PlainStep("warmup", "distance", Some(Unit), <<"k", "m">>)
      cd == PlainStep("cooldown", "open", None, <<>>)
  IN  {Workout(name, Running, steps0).val :
         name \in {UntitledWorkout, <<"T">>},
         steps0 \in {<<LeafA>>, <<cd>>, <<RepeatA>>, <<LeafB, LeafA>>, <<RepeatA, RepeatA>>,
                     <<wu, RepeatA, cd>>, <<wu, LeafA, LeafB, cd>>,
                     <<RepeatA, LeafA, RepeatA, LeafB>>}}

\* auth.login(email, password)
AuthLogin ==
  /\ pc \in {"garmin", "auth", "converter", "client", "operated"}
  /\ \E garth_ok \in BOOLEAN :
       LET done == login(obj.auth, garth_ok) IN
       /\ call' = [op |-> "login", garth_ok |-> garth_ok]
       /\ obj' = [obj EXCEPT !.auth = done.self]
       /\ ret' = [op |-> "login", result |-> done.result, sent |-> done.sent]
  /\ pc' = "auth"
  /\ UNCHANGED <<text, normalized, parts, steps, result, workout, screens, threads, parser>>

\* auth.resume()
AuthResume ==
  /\ pc \in {"garmin", "auth", "converter", "client", "operated"}
  /\ \E garth_ok \in BOOLEAN :
       LET done == resume(obj.auth, garth_ok) IN
       /\ call' = [op |-> "resume", garth_ok |-> garth_ok]
       /\ obj' = [obj EXCEPT !.auth = done.self]
       /\ ret' = [op |-> "resume", result |-> done.result, sent |-> done.sent]
  /\ pc' = "auth"
  /\ UNCHANGED <<text, normalized, parts, steps, result, workout, screens, threads, parser>>

\* auth.logout()
AuthLogout ==
  /\ pc \in {"garmin", "auth", "converter", "client", "operated"}
  /\ LET done == logout(obj.auth) IN
       /\ call' = [op |-> "logout"]
       /\ obj' = [obj EXCEPT !.auth = done.self]
       /\ ret' = [op |-> "logout", result |-> done.result, sent |-> done.sent]
  /\ pc' = "auth"
  /\ UNCHANGED <<text, normalized, parts, steps, result, workout, screens, threads, parser>>

\* auth.ensure_authenticated(email, password)
AuthEnsureAuthenticated ==
  /\ pc \in {"garmin", "auth", "converter", "client", "operated"}
  /\ \E credentials \in BOOLEAN, resume_ok \in BOOLEAN, login_ok \in BOOLEAN :
       LET done == ensure_authenticated(obj.auth, credentials, resume_ok, login_ok) IN
       /\ call' = [op |-> "ensure_authenticated", credentials |-> credentials]
       /\ obj' = [obj EXCEPT !.auth = done.self]
       /\ ret' = [op |-> "ensure_authenticated", result |-> done.result, sent |-> done.sent]
  /\ pc' = "auth"
  /\ UNCHANGED <<text, normalized, parts, steps, result, workout, screens, threads, parser>>

\* converter = WorkoutConverter(); our_json = converter.convert(test_workout)
ConvertWorkout ==
  /\ pc \in {"garmin", "auth", "converter", "client", "operated"}
  /\ \E w \in GarminWorkouts :
       LET converter == WorkoutConverter IN
       /\ call' = [op |-> "convert", workout |-> w]
       /\ ret' = [op |-> "convert",
                  result |-> IF converter.ok THEN Ok(convert(converter.val, w)) ELSE converter,
                  sent |-> <<>>]
  /\ pc' = "converter"
  /\ UNCHANGED <<text, normalized, parts, steps, result, obj, workout, screens, threads, parser>>

\* client = GarminClient(auth)
ConstructClient ==
  /\ pc \in {"garmin", "auth", "converter", "client", "operated"}
  /\ call' = [op |-> "GarminClient"]
  /\ obj' = [obj EXCEPT !.client = GarminClient]
  /\ ret' = [op |-> "GarminClient",
             result |-> IF obj'.client.ok THEN Ok("client") ELSE obj'.client, sent |-> <<>>]
  /\ pc' = "client"
  /\ UNCHANGED <<text, normalized, parts, steps, result, workout, screens, threads, parser>>

\* client.ensure_connected(email, password)
ClientEnsureConnected ==
  /\ pc \in {"client", "operated"} \/ (pc \in {"auth", "converter"} /\ obj.client # Pending)
  /\ \E credentials \in BOOLEAN, resume_ok \in BOOLEAN, login_ok \in BOOLEAN :
       /\ call' = [op |-> "ensure_connected", credentials |-> credentials]
       /\ IF obj.client.ok
          THEN LET done == ensure_connected(obj.client.val, obj.auth,
                                            credentials, resume_ok, login_ok) IN
               /\ obj' = [auth |-> done.auth, client |-> Ok(done.self)]
               /\ ret' = [op |-> "ensure_connected", result |-> done.result,
                          sent |-> done.sent]
          ELSE /\ obj' = obj
               /\ ret' = [op |-> "ensure_connected", result |-> obj.client, sent |-> <<>>]
  /\ pc' = "client"
  /\ UNCHANGED <<text, normalized, parts, steps, result, workout, screens, threads, parser>>

\* response = client.upload_workout(result)
ClientUploadWorkout ==
  /\ pc \in {"client", "operated"} \/ (pc \in {"auth", "converter"} /\ obj.client # Pending)
  /\ \E w \in GarminWorkouts, remote_ok \in BOOLEAN :
       /\ call' = [op |-> "upload_workout", workout |-> w]
       /\ ret' = IF obj.client.ok
                 THEN [op |-> "upload_workout"] @@ upload_workout(obj.client.val, w, remote_ok)
                 ELSE [op |-> "upload_workout", result |-> obj.client, sent |-> <<>>]
  /\ pc' = "operated"
  /\ UNCHANGED <<text, normalized, parts, steps, result, obj, workout, screens, threads, parser>>

\* client.download_workout(workout_id)
ClientDownloadWorkout ==
  /\ pc \in {"client", "operated"} \/ (pc \in {"auth", "converter"} /\ obj.client # Pending)
  /\ \E workout_id \in {1, 2}, remote_ok \in BOOLEAN :
       /\ call' = [op |-> "download_workout", workout_id |-> workout_id]
       /\ ret' = IF obj.client.ok
                 THEN [op |-> "download_workout"]
                      @@ download_workout(obj.client.val, workout_id, remote_ok)
                 ELSE [op |-> "download_workout", result |-> obj.client, sent |-> <<>>]
  /\ pc' = "operated"
  /\ UNCHANGED <<text, normalized, parts, steps, result, obj, workout, screens, threads, parser>>

\* client.list_workouts(start, limit)
ClientListWorkouts ==
  /\ pc \in {"client", "operated"} \/ (pc \in {"auth", "converter"} /\ obj.client # Pending)
  /\ \E start \in {0, 10}, remote_ok \in BOOLEAN :
       /\ call' = [op |-> "list_workouts", start |-> start, limit |-> 10]
       /\ ret' = IF obj.client.ok
                 THEN [op |-> "list_workouts"]
                      @@ list_workouts(obj.client.val, start, 10, remote_ok)
                 ELSE [op |-> "list_workouts", result |-> obj.client, sent |-> <<>>]
  /\ pc' = "operated"
  /\ UNCHANGED <<text, normalized, parts, steps, result, obj, workout, screens, threads, parser>>

\* auth = GarminAuth(), with or without a token file of an earlier run
InitGarmin ==
  /\ pc = "garmin"
  /\ text = <<>>
  /\ normalized = <<>>
  /\ parts = <<>>
  /\ steps = <<>>
  /\ result = Pending
  /\ call = [op |-> "GarminAuth"]
  /\ \E token_file \in BOOLEAN : obj = [auth |-> GarminAuth(token_file), client |-> Pending]
  /\ Elsewhere

NextGarmin ==
  \/ AuthLogin \/ AuthResume \/ AuthLogout \/ AuthEnsureAuthenticated
  \/ ConvertWorkout \/ ConstructClient
  \/ ClientEnsureConnected \/ ClientUploadWorkout
  \/ ClientDownloadWorkout \/ ClientListWorkouts

SpecGarmin == InitGarmin /\ [][NextGarmin]_vars


(***************************************************************************)
(* C28.  Whenever upload_workout, download_workout or list_workouts of a   *)
(* GarminClient reaches the remote call, its GarminAuth is authenticated,  *)
(* whatever sequence of ensure_connected, login, resume and logout         *)
(* preceded it; in every other state the operation fails with the          *)
(* not-connected error and sends nothing.                                  *)
(***************************************************************************)
C28_RemoteCallOnlyWhenAuthenticated ==
  pc = "operated" =>
    IF ret.sent # <<>>
    THEN is_authenticated(obj.auth)
    ELSE ~ret.result.ok /\ ret.result.err = NotConnected

(***************************************************************************)
(* C29.  A WorkoutConverter can be constructed and convert returns a       *)
(* document for every valid Workout: every step kind of the data model has *)
(* an entry in its step-type table, top-level steps get stepOrder 1..n in  *)
(* workout order, and the children of each repeat group are numbered from  *)
(* 1 in child order.                                                       *)
(***************************************************************************)
C29_ConvertReturnsDocument ==
  pc = "converter" =>
    /\ WorkoutConverter.ok
    /\ \A step_type \in StepType :
         \E e \in WorkoutConverter.val.step_type_map : e[1] = step_type
    /\ ret.result.ok
    /\ LET given == call.workout.steps
           made == ret.result.val.workoutSegments[1].workoutSteps
       IN  /\ Len(made) = Len(given)
           /\ \A i \in DOMAIN made :
                /\ made[i].stepOrder = i
                /\ given[i].step_type = "repeat" =>
                     /\ Len(made[i].workoutSteps) = Len(Get(given[i].repeat_steps))
                     /\ \A j \in DOMAIN made[i].workoutSteps :
                          made[i].workoutSteps[j].stepOrder = j

=============================================================================
